---- MODULE Spec2Model ----
(***************************************************************************)
(* Metered access-control engine of jquant.dev: the file-backed KeyStore   *)
(* (lib/db.ts), the dual-window rate limiter (lib/rate-limit.ts), the      *)
(* Stripe webhook reconciler (api/stripe/webhook/route.ts), the key        *)
(* routes (api/keys, api/keys/[id]) and the predict route.                 *)
(*                                                                         *)
(* Conventions: a JavaScript string identifier that is generated by        *)
(* randomUUID() is a natural number drawn from the counter nextSecret;     *)
(* 0 stands for undefined/null; "" is the empty string.  The KeyStore is   *)
(* the flat-file backend (users.json, payments.json, usage.json); the      *)
(* Supabase branch of lib/db.ts talks to an external table whose schema    *)
(* is not part of the repository and is not modelled.                      *)
(***************************************************************************)
EXTENDS Integers, Sequences, FiniteSets, TLC

VARIABLES
  usersFile,     \* data/users.json: sequence of users [id, email, keys]
  paymentsFile,  \* data/payments.json: sequence of payment rows
  usageFile,     \* data/usage.json: [kind, entries]
  redis,         \* Upstash counters: function from <<secret, "m"|"d", window>> to count
  redisOn,       \* UPSTASH_REDIS_REST_URL and _TOKEN are configured
  now,           \* wall clock, in slots of 60/SlotsPerMinute seconds
  ticks,         \* number of clock advances so far
  nextSecret,    \* next value randomUUID() returns
  calls,         \* number of checkAndIncrementKey calls started so far
  admitted,      \* history: <<secret, minuteWindow>> -> calls admitted in that window
  last,          \* history: request and response of the last handler that ran
  pc,            \* per in-flight request: position in its handler
  loc            \* per in-flight request: local variables of its handler

vars == <<usersFile, paymentsFile, usageFile, redis, redisOn, now, ticks,
          nextSecret, calls, admitted, last, pc, loc>>

----------------------------------------------------------------------------
(* Bounds of the model *)

NUsers == 1          \* principals that signed up before the behaviour starts
MaxSecret == 3       \* last value randomUUID() may return
MaxPayments == 2     \* rows payments.json may hold
MaxTicks == 2        \* clock advances
MaxCalls == 3        \* checkAndIncrementKey calls
MaxPredicts == 2     \* predict requests that reach the quota check
SlotsPerMinute == 2  \* clock resolution: slots per minute
LimitM == 2          \* minute limit handed to checkAndIncrementKey
LimitD == 3          \* day limit handed to checkAndIncrementKey
NProcs == 2          \* concurrent requests

MinutesPerDay == 1440

Users == 1..NUsers
Secrets == 1..MaxSecret
Procs == 1..NProcs

Max(a, b) == IF a >= b THEN a ELSE b

----------------------------------------------------------------------------
(* Price identifiers and the calls-per-minute table of the webhook *)

\* Object.keys(ENV_PRICE_TO_CALLS), in insertion order
EnvNames == << "TENCALLS_PRICE_ID", "TWENTYFIVECALLS_PRICE_ID", "FIFTYCALLS_PRICE_ID",
               "HUNDREDFIFTYCALLS_PRICE_ID", "FIVEHUNDREDCALLS_PRICE_ID" >>

ENV_PRICE_TO_CALLS(name) ==
  CASE name = "TENCALLS_PRICE_ID" -> 10
    [] name = "TWENTYFIVECALLS_PRICE_ID" -> 25
    [] name = "FIFTYCALLS_PRICE_ID" -> 50
    [] name = "HUNDREDFIFTYCALLS_PRICE_ID" -> 150
    [] name = "FIVEHUNDREDCALLS_PRICE_ID" -> 500

IsEnvName(s) == \E i \in 1..Len(EnvNames) : EnvNames[i] = s

\* process.env[name] of the deployment: the Stripe price id configured for
\* each env name, "" when the variable is not set
ProcessEnv(name) ==
  CASE name = "TENCALLS_PRICE_ID" -> "price_10"
    [] name = "TWENTYFIVECALLS_PRICE_ID" -> "price_25"
    [] name = "FIFTYCALLS_PRICE_ID" -> "price_50"
    [] name = "HUNDREDFIFTYCALLS_PRICE_ID" -> "price_150"
    [] name = "FIVEHUNDREDCALLS_PRICE_ID" -> "price_500"
    [] OTHER -> ""

\* String.prototype.includes
Includes(s, sub) ==
  \E i \in 1..(Len(s) - Len(sub) + 1) : SubSeq(s, i, i + Len(sub) - 1) = sub

\* envName.replace('_PRICE_ID', '')
Stem(envName) == SubSeq(envName, 1, Len(envName) - Len("_PRICE_ID"))

\* the body of the for loop of getCallsFromPriceKey for the i-th env name on:
\* the first env name whose configured id equals keyOrId or whose stem is
\* contained in keyOrId decides; 60 when none does
RECURSIVE CallsFromLoop(_, _)
CallsFromLoop(keyOrId, i) ==
  IF i > Len(EnvNames) THEN 60
  ELSE IF \/ (ProcessEnv(EnvNames[i]) # "" /\ ProcessEnv(EnvNames[i]) = keyOrId)
          \/ Includes(keyOrId, Stem(EnvNames[i]))
       THEN ENV_PRICE_TO_CALLS(EnvNames[i])
       ELSE CallsFromLoop(keyOrId, i + 1)

getCallsFromPriceKey(keyOrId) ==
  IF keyOrId = "" THEN 60
  ELSE IF IsEnvName(keyOrId) THEN ENV_PRICE_TO_CALLS(keyOrId)
  ELSE CallsFromLoop(keyOrId, 1)

----------------------------------------------------------------------------
(* The external billing system (Stripe) as the handlers see it *)

\* price ids the billing system knows, with unit_amount and product
StripePriceIds == {"price_10", "price_50"}
StripeUnitAmount(pid) == IF pid = "price_10" THEN 1000 ELSE 5000
StripeProduct(pid) == IF pid = "price_10" THEN "prod_starter" ELSE "prod_pro"

\* answers stripe.prices.retrieve(pid) can give: the price, or a failure
\* (unknown id, network error, timeout)
PriceAnswers(pid) == {"fail"} \cup (IF pid \in StripePriceIds THEN {"ok"} ELSE {})

SubStatuses == {"active", "canceled", "incomplete_expired"}

\* a status the deletion guard and the spec count as a live subscription
Live(status) == status \notin {"canceled", "incomplete_expired", "deleted"}

----------------------------------------------------------------------------
(* KeyStore: lib/db.ts, file-backed branch *)

\* a users.json entry as signup writes it
UserRec(id, email, keys) == [id |-> id, email |-> email, keys |-> keys]

KeyRec(id, key, tier, limit, priceKeyName, subscriptionId, name) ==
  [id |-> id, key |-> key, tier |-> tier, limit |-> limit,
   priceKeyName |-> priceKeyName, subscriptionId |-> subscriptionId,
   name |-> name, revealed |-> FALSE]

\* the initial free key of signup: no id, no name, no limit field
SignupFreeKey(secret) == KeyRec(0, secret, "free", 0, "", "", "")

\* users.find(u => u.id === id): index of the first match, 0 for undefined
FindUserIdx(file, id) ==
  IF \E i \in 1..Len(file) : file[i].id = id
  THEN CHOOSE i \in 1..Len(file) :
         file[i].id = id /\ \A j \in 1..(i - 1) : file[j].id # id
  ELSE 0

findUserById(file, id) == FindUserIdx(file, id)

\* users.find(u => u.email === email)
findUserByEmail(file, email) ==
  IF \E i \in 1..Len(file) : file[i].email = email
  THEN CHOOSE i \in 1..Len(file) :
         file[i].email = email /\ \A j \in 1..(i - 1) : file[j].email # email
  ELSE 0

listKeysForUser(file, userId) ==
  IF FindUserIdx(file, userId) = 0 THEN << >> ELSE file[FindUserIdx(file, userId)].keys

\* user.keys.push(keyObj) on the users array the caller read; the caller
\* writes the result back with writeJson.  ok = FALSE models 'User not found'.
addApiKeyForUser(file, userId, keyObj) ==
  LET i == FindUserIdx(file, userId) IN
  IF i = 0 THEN [ok |-> FALSE, file |-> file]
  ELSE [ok |-> TRUE, file |-> [file EXCEPT ![i].keys = Append(@, keyObj)]]

\* Array.prototype.filter
RECURSIVE FilterKeys(_, _)
FilterKeys(keys, ident) ==
  IF keys = << >> THEN << >>
  ELSE LET k == Head(keys) IN
       IF k.id # ident /\ k.key # ident
       THEN << k >> \o FilterKeys(Tail(keys), ident)
       ELSE FilterKeys(Tail(keys), ident)

\* removeApiKeyForUser with the filter comparing kk.id only
removeApiKeyById(file, userId, ident) ==
  LET i == FindUserIdx(file, userId) IN
  IF i = 0 THEN [ok |-> FALSE, file |-> file]
  ELSE [ok |-> TRUE,
        file |-> [file EXCEPT ![i].keys = SelectSeq(@, LAMBDA k : k.id # ident)]]

removeApiKeyForUser(file, userId, ident) ==
  LET i == FindUserIdx(file, userId) IN
  IF i = 0 THEN [ok |-> FALSE, file |-> file]
  ELSE [ok |-> TRUE, file |-> [file EXCEPT ![i].keys = FilterKeys(@, ident)]]

\* index of the first key of keys whose id is keyId (the loop breaks there)
FirstKeyWithId(keys, keyId) ==
  IF \E n \in 1..Len(keys) : keys[n].id = keyId
  THEN CHOOSE n \in 1..Len(keys) :
         keys[n].id = keyId /\ \A m \in 1..(n - 1) : keys[m].id # keyId
  ELSE 0

\* a faulty variant of rotateApiKeyForUser: the new secret is returned but
\* the stored key keeps the old one
RotateKeepsOld(file, userId, keyId, newKey) ==
  [ok |-> FindUserIdx(file, userId) # 0, file |-> file]

rotateApiKeyForUser(file, userId, keyId, newKey) ==
  LET i == FindUserIdx(file, userId) IN
  IF i = 0 THEN [ok |-> FALSE, file |-> file]
  ELSE LET n == FirstKeyWithId(file[i].keys, keyId) IN
       [ok |-> TRUE,
        file |-> IF n = 0 THEN file ELSE [file EXCEPT ![i].keys[n].key = newKey]]

\* the reverse lookup: first user, then first key of that user, whose secret
\* is apiKey; [u |-> 0, k |-> 0] for null
findUserByApiKey(file, apiKey) ==
  LET hit(i) == \E n \in 1..Len(file[i].keys) : file[i].keys[n].key = apiKey IN
  IF \E i \in 1..Len(file) : hit(i)
  THEN LET i == CHOOSE i \in 1..Len(file) : hit(i) /\ \A j \in 1..(i - 1) : ~hit(j)
           n == CHOOSE n \in 1..Len(file[i].keys) :
                  /\ file[i].keys[n].key = apiKey
                  /\ \A m \in 1..(n - 1) : file[i].keys[m].key # apiKey
       IN [u |-> i, k |-> n]
  ELSE [u |-> 0, k |-> 0]

\* payments.push({...}) then writeJson
recordPayment(pay, userId, priceKeyName, amount, stripePaymentIntent) ==
  Append(pay, [userId |-> userId, priceKeyName |-> priceKeyName,
               amount |-> amount, stripePaymentIntent |-> stripePaymentIntent])

\* (existing || []).some((k) => k.tier === 'paid')
SomePaid(keys) == \E n \in 1..Len(keys) : keys[n].tier = "paid"

PaidCount(file, userId) ==
  LET keys == listKeysForUser(file, userId) IN
  Cardinality({n \in 1..Len(keys) : keys[n].tier = "paid"})

FreeCount(file, userId) ==
  LET keys == listKeysForUser(file, userId) IN
  Cardinality({n \in 1..Len(keys) : keys[n].tier = "free"})

----------------------------------------------------------------------------
(* QuotaLedger: lib/rate-limit.ts *)

\* Math.floor(now.getTime() / 60000)
MinuteWindow(t) == t \div SlotsPerMinute

\* todayDateString(): the UTC calendar date, as a day number
DayWindow(t) == t \div (SlotsPerMinute * MinutesPerDay)

\* --- Redis path (lines 82-105) ---

RedisGet(r, k) == IF k \in DOMAIN r THEN r[k] ELSE 0

\* INCR: atomic add-one that returns the new value; a missing key counts as 0.
\* EXPIRE (75 s on a minute key, 26 h on a day key) outlives the window the
\* key is named after, so no key disappears while its window can be current.
RedisIncr(r, k) ==
  [x \in DOMAIN r \cup {k} |-> IF x = k THEN RedisGet(r, k) + 1 ELSE r[x]]

MinuteKey(key, t) == << key, "m", MinuteWindow(t) >>
DayKey(key, t) == << key, "d", DayWindow(t) >>

\* the response computed from the two INCR results
RedisResult(minuteCount, dayCount, minuteLimit, dayLimit) ==
  [allowed |-> (minuteCount <= minuteLimit /\ dayCount <= dayLimit),
   minuteRemaining |-> Max(0, minuteLimit - minuteCount),
   dayRemaining |-> Max(0, dayLimit - dayCount)]

\* --- file fallback (lines 107-146) ---

\* readJson('usage.json'): the parsed object, or the array [] when the file
\* is missing or unreadable; [] || {} is [] because an array is truthy
ReadUsage(f) == IF f.kind = "object" THEN f ELSE [kind |-> "array", entries |-> << >>]

\* JSON.stringify of what the handler holds after usages[key] = entry: a
\* string-named property set on an array is not serialised, so an array is
\* written back as []
WithEntry(usages, key, entry) ==
  IF usages.kind = "object"
  THEN [kind |-> "object",
        entries |-> [x \in DOMAIN usages.entries \cup {key} |->
                       IF x = key THEN entry ELSE usages.entries[x]]]
  ELSE [kind |-> "array", entries |-> << >>]

UsageEntry(mws, mc, dws, dc, ncalls) ==
  [minuteWindowStart |-> mws, minuteCount |-> mc,
   dayWindowStart |-> dws, dayCount |-> dc, calls |-> ncalls]

\* lines 113-128: the entry of key after the window resets (-1 stands for an
\* undefined window field, which differs from every window id)
EntryAt(usages, key, t) ==
  LET e0 == IF key \in DOMAIN usages.entries THEN usages.entries[key]
            ELSE UsageEntry(MinuteWindow(t), 0, DayWindow(t), 0, 0)
      e1 == IF e0.minuteWindowStart # MinuteWindow(t)
            THEN [e0 EXCEPT !.minuteWindowStart = MinuteWindow(t), !.minuteCount = 0]
            ELSE e0
  IN IF e1.dayWindowStart # DayWindow(t)
     THEN [e1 EXCEPT !.dayWindowStart = DayWindow(t), !.dayCount = 0]
     ELSE e1

\* lines 130-145 on the usages the caller read at time t: the content it
\* hands to writeJson and the result it returns
FileCheck(usages, key, minuteLimit, dayLimit, t) ==
  LET entry == EntryAt(usages, key, t)
      wouldBeMinute == entry.minuteCount + 1
      wouldBeDay == entry.dayCount + 1
  IN IF wouldBeMinute > minuteLimit \/ wouldBeDay > dayLimit
     THEN [write |-> WithEntry(usages, key, entry),
           res |-> [allowed |-> FALSE,
                    minuteRemaining |-> Max(0, minuteLimit - entry.minuteCount),
                    dayRemaining |-> Max(0, dayLimit - entry.dayCount)]]
     ELSE [write |-> WithEntry(usages, key,
                       [entry EXCEPT !.minuteCount = wouldBeMinute, !.dayCount = wouldBeDay]),
           res |-> [allowed |-> TRUE,
                    minuteRemaining |-> minuteLimit - wouldBeMinute,
                    dayRemaining |-> dayLimit - wouldBeDay]]

\* checkAndIncrementKey run to completion with no other request in between:
\* the stores it leaves and the result it returns
checkAndIncrementKey(r, f, useRedis, key, minuteLimit, dayLimit, t) ==
  IF useRedis
  THEN LET r1 == RedisIncr(r, MinuteKey(key, t))
           r2 == RedisIncr(r1, DayKey(key, t))
       IN [redis |-> r2, file |-> f,
           res |-> RedisResult(r1[MinuteKey(key, t)], r2[DayKey(key, t)],
                               minuteLimit, dayLimit)]
  ELSE LET c == FileCheck(ReadUsage(f), key, minuteLimit, dayLimit, t)
       IN [redis |-> r, file |-> c.write, res |-> c.res]

\* history: one more admission of key in the minute window of time t
Admit(adm, key, t) ==
  LET w == << key, MinuteWindow(t) >> IN
  [x \in DOMAIN adm \cup {w} |->
     IF x = w THEN (IF w \in DOMAIN adm THEN adm[w] ELSE 0) + 1 ELSE adm[x]]

----------------------------------------------------------------------------
(* Initial state: NUsers principals have signed up (api/keys/route.ts lines
   53-77: createUser, then one free key), nothing else has happened.
   usage.json does not exist until something writes it, unless the
   deployment ships one holding {}. *)

EmptyFcn == [x \in {} |-> 0]

InitUsers == [i \in Users |-> UserRec(i, i, << SignupFreeKey(i) >>)]

Idle == [op |-> "none"]

Init ==
  /\ usersFile = InitUsers
  /\ paymentsFile = << >>
  /\ usageFile \in {[kind |-> "absent", entries |-> EmptyFcn],
                    [kind |-> "object", entries |-> EmptyFcn]}
  /\ redis = EmptyFcn
  /\ redisOn \in BOOLEAN
  /\ now = 0
  /\ ticks = 0
  /\ nextSecret = NUsers + 1
  /\ calls = 0
  /\ admitted = EmptyFcn
  /\ last = Idle
  /\ pc = [p \in Procs |-> "idle"]
  /\ loc = [p \in Procs |-> Idle]

\* time passes: one slot, or up to the start of the next calendar day
Tick ==
  /\ ticks < MaxTicks
  /\ \E t \in {now + 1, (DayWindow(now) + 1) * SlotsPerMinute * MinutesPerDay} :
       now' = t
  /\ ticks' = ticks + 1
  /\ UNCHANGED <<usersFile, paymentsFile, usageFile, redis, redisOn, nextSecret,
                 calls, admitted, last, pc, loc>>

AdmittedIn(adm, key, w) == IF << key, w >> \in DOMAIN adm THEN adm[<< key, w >>] ELSE 0

\* the keys checkAndIncrementKey is called with: the secrets in use
RLKeys == Users

\* a day limit no run of the model reaches
FarDayLimit == LimitD + MaxCalls

CheckRecord(key, t, minuteLimit, dayLimit, res, adm, ncalls) ==
  [op |-> "check", key |-> key, t |-> t, minuteLimit |-> minuteLimit,
   dayLimit |-> dayLimit, res |-> res,
   admittedBefore |-> AdmittedIn(adm, key, MinuteWindow(t)),
   prevAdmitted |-> AdmittedIn(adm, key, MinuteWindow(t) - 1),
   callsBefore |-> ncalls]

----------------------------------------------------------------------------
(* checkAndIncrementKey, one call at a time *)

SeqCheck(key, dayLimit) ==
  /\ calls < MaxCalls
  /\ LET c == checkAndIncrementKey(redis, usageFile, redisOn, key, LimitM, dayLimit, now) IN
       /\ redis' = c.redis
       /\ usageFile' = c.file
       /\ admitted' = IF c.res.allowed THEN Admit(admitted, key, now) ELSE admitted
       /\ last' = CheckRecord(key, now, LimitM, dayLimit, c.res, admitted, calls)
  /\ calls' = calls + 1
  /\ UNCHANGED <<usersFile, paymentsFile, redisOn, now, ticks, nextSecret,
                 pc, loc>>

SpecRLSeq ==
  Init /\ [][
    \/ \E key \in RLKeys, dayLimit \in {LimitD, FarDayLimit} : SeqCheck(key, dayLimit)
    \/ Tick
    ]_vars

----------------------------------------------------------------------------
(* checkAndIncrementKey under concurrent callers: one step per await *)

\* the call starts; the Redis path reads the clock before its first INCR
RLStart(p, key) ==
  /\ pc[p] = "idle"
  /\ calls < MaxCalls
  /\ calls' = calls + 1
  /\ pc' = [pc EXCEPT ![p] = IF redisOn THEN "incrMinute" ELSE "readUsage"]
  /\ loc' = [loc EXCEPT ![p] = [op |-> "check", key |-> key, t |-> now, callsBefore |-> calls]]
  /\ UNCHANGED <<usersFile, paymentsFile, usageFile, redis, redisOn, now, ticks,
                 nextSecret, admitted, last>>

\* await redis.incr(minuteKey)
RLIncrMinute(p) ==
  /\ pc[p] = "incrMinute"
  /\ redis' = RedisIncr(redis, MinuteKey(loc[p].key, loc[p].t))
  /\ loc' = [loc EXCEPT ![p] =
               [op |-> "check", key |-> loc[p].key, t |-> loc[p].t,
                callsBefore |-> loc[p].callsBefore,
                minuteCount |-> redis'[MinuteKey(loc[p].key, loc[p].t)]]]
  /\ pc' = [pc EXCEPT ![p] = "incrDay"]
  /\ UNCHANGED <<usersFile, paymentsFile, usageFile, redisOn, now, ticks, nextSecret,
                 calls, admitted, last>>

\* await redis.incr(dayKey), then the result
RLIncrDay(p) ==
  /\ pc[p] = "incrDay"
  /\ redis' = RedisIncr(redis, DayKey(loc[p].key, loc[p].t))
  /\ LET res == RedisResult(loc[p].minuteCount, redis'[DayKey(loc[p].key, loc[p].t)],
                            LimitM, FarDayLimit) IN
       /\ admitted' = IF res.allowed THEN Admit(admitted, loc[p].key, loc[p].t) ELSE admitted
       /\ last' = CheckRecord(loc[p].key, loc[p].t, LimitM, FarDayLimit, res, admitted,
                              loc[p].callsBefore)
  /\ pc' = [pc EXCEPT ![p] = "idle"]
  /\ loc' = [loc EXCEPT ![p] = Idle]
  /\ UNCHANGED <<usersFile, paymentsFile, usageFile, redisOn, now, ticks, nextSecret,
                 calls>>

\* await readJson('usage.json'), then lines 109-131 on what was read
RLRead(p) ==
  /\ pc[p] = "readUsage"
  /\ loc' = [loc EXCEPT ![p] =
               [op |-> "check", key |-> loc[p].key, t |-> now,
                callsBefore |-> loc[p].callsBefore,
                c |-> FileCheck(ReadUsage(usageFile), loc[p].key, LimitM, FarDayLimit, now)]]
  /\ pc' = [pc EXCEPT ![p] = "writeUsage"]
  /\ UNCHANGED <<usersFile, paymentsFile, usageFile, redis, redisOn, now, ticks,
                 nextSecret, calls, admitted, last>>

\* await writeJson('usage.json', usages), then the result
RLWrite(p) ==
  /\ pc[p] = "writeUsage"
  /\ usageFile' = loc[p].c.write
  /\ admitted' = IF loc[p].c.res.allowed
                 THEN Admit(admitted, loc[p].key, loc[p].t) ELSE admitted
  /\ last' = CheckRecord(loc[p].key, loc[p].t, LimitM, FarDayLimit, loc[p].c.res, admitted,
                         loc[p].callsBefore)
  /\ pc' = [pc EXCEPT ![p] = "idle"]
  /\ loc' = [loc EXCEPT ![p] = Idle]
  /\ UNCHANGED <<usersFile, paymentsFile, redis, redisOn, now, ticks, nextSecret,
                 calls>>

SpecRL ==
  Init /\ [][
    \/ \E p \in Procs, key \in RLKeys : RLStart(p, key)
    \/ \E p \in Procs : RLIncrMinute(p)
    \/ \E p \in Procs : RLIncrDay(p)
    \/ \E p \in Procs : RLRead(p)
    \/ \E p \in Procs : RLWrite(p)
    \/ Tick
    ]_vars

----------------------------------------------------------------------------
(* C1 and C6 *)

\* C1: for any interleaving of concurrent checkAndIncrementKey calls against
\* one key with minute limit L (the day limit not binding), at most L of the
\* calls are admitted within one minute window.
C1_AtMostLPerWindow ==
  \A w \in DOMAIN admitted : admitted[w] <= LimitM

\* C6: with minute limit L and a day limit that does not bind (it exceeds the
\* number of calls made so far), a call made after L calls were admitted in
\* its minute window is rejected with minuteRemaining = 0, and the first
\* call of the window that follows an exhausted window is admitted.
C6_Boundary ==
  (last.op = "check" /\ last.callsBefore < last.dayLimit) =>
    /\ (last.admittedBefore = last.minuteLimit =>
          ~last.res.allowed /\ last.res.minuteRemaining = 0)
    /\ (last.admittedBefore = 0 /\ last.prevAdmitted = last.minuteLimit =>
          last.res.allowed)

----------------------------------------------------------------------------
(* EntitlementReconciler: api/stripe/webhook/route.ts, lines 131-232 *)

\* metadata.priceKeyName: absent, a configured env name, or a string that is
\* neither an env name nor a price id of the billing system
PriceKeyNames == {"", "FIFTYCALLS_PRICE_ID", "bogus"}

\* the amount paid: the unit amount of price_50, or another amount
Amounts == {1000, 5000}

Event(type, userId, priceKeyName, amount, id, subscriptionId, customerEmail) ==
  [type |-> type, userId |-> userId, priceKeyName |-> priceKeyName, amount |-> amount,
   id |-> id, subscriptionId |-> subscriptionId, customerEmail |-> customerEmail]

\* the events delivered: fields no branch reads for an event (the price and
\* amount of an event without userId, a second amount where no amount check
\* can be made) take one value
PaymentEvents ==
  {Event("payment_intent.succeeded", 0, "", 5000, "pi_1", "", 0)} \cup
  {Event("payment_intent.succeeded", u, pk, 5000, "pi_1", "", 0) :
     u \in Users, pk \in PriceKeyNames} \cup
  {Event("payment_intent.succeeded", u, "FIFTYCALLS_PRICE_ID", 1000, "pi_1", "", 0) :
     u \in Users}

\* the customer email is read only when metadata.userId resolves no user
SubscriptionEvents ==
  {Event("checkout.session.completed", 0, "", 5000, "", "", 0)} \cup
  {Event("checkout.session.completed", u, "", 5000, "", "sub_1", 0) : u \in Users} \cup
  {Event("checkout.session.completed", 0, "", 5000, "", "sub_1", em) : em \in 0..NUsers}

\* process.env[priceKeyName] || priceKeyName
ResolvePriceId(priceKeyName) ==
  IF ProcessEnv(priceKeyName) # "" THEN ProcessEnv(priceKeyName) ELSE priceKeyName

\* lines 157-173: the amount check of a one-off payment.  answer is what
\* stripe.prices.retrieve gave; a failure is caught and the handler goes on
\* with callsPerMin = 60
PaymentVerify(e, answer) ==
  IF e.priceKeyName = "" THEN [reject |-> FALSE, callsPerMin |-> 60]
  ELSE IF answer = "fail" THEN [reject |-> FALSE, callsPerMin |-> 60]
  ELSE IF e.amount # StripeUnitAmount(ResolvePriceId(e.priceKeyName))
       THEN [reject |-> TRUE, callsPerMin |-> 60]
       ELSE [reject |-> FALSE, callsPerMin |-> getCallsFromPriceKey(e.priceKeyName)]

\* line 184
PaymentKey(e, callsPerMin, id) ==
  KeyRec(id, id, "paid", callsPerMin, e.priceKeyName, "", "Paid key")

\* lines 200-204 and 217: priceId is items.data[0].price.id of the
\* subscription the billing system returned ("" when it has none)
SubscriptionKey(e, priceId, id) ==
  KeyRec(id, id, "paid", IF priceId # "" THEN getCallsFromPriceKey(priceId) ELSE 60,
         priceId, e.subscriptionId, "Subscription key")

\* lines 206-210: the principal of a subscription event, as an index into
\* users (0 when none resolves)
\* lines 206-210 with the customer email tried before metadata.userId
SubscriptionUserEmailFirst(file, e) ==
  LET byEmail == IF e.customerEmail # 0 THEN findUserByEmail(file, e.customerEmail) ELSE 0 IN
  IF byEmail = 0 /\ e.userId # 0 THEN findUserById(file, e.userId) ELSE byEmail

SubscriptionUser(file, e) ==
  LET byId == IF e.userId # 0 THEN findUserById(file, e.userId) ELSE 0 IN
  IF byId = 0 /\ e.customerEmail # 0 THEN findUserByEmail(file, e.customerEmail) ELSE byId

\* a faulty variant of GrantNeeded: every event grants
GrantAlways(file, userId) == TRUE

\* lines 178-187 and 212-224: the grant decision on the users the handler
\* sees: a key is added only if the principal holds no key of tier 'paid'
GrantNeeded(file, userId) == ~SomePaid(listKeysForUser(file, userId))

Outcome(status, users, pays, granted, principal) ==
  [status |-> status, users |-> users, pays |-> pays, granted |-> granted,
   principal |-> principal]

\* a faulty variant of PaymentOutcome: the payment is recorded only when a
\* key is granted
PaymentRecordsOnlyGrant(users, pays, e, answer, fresh) ==
  IF e.userId = 0 THEN Outcome(200, users, pays, FALSE, 0)
  ELSE LET v == PaymentVerify(e, answer) IN
       IF v.reject THEN Outcome(400, users, pays, FALSE, e.userId)
       ELSE LET pays1 == recordPayment(pays, e.userId, e.priceKeyName, e.amount, e.id)
                ui == findUserById(users, e.userId)
            IN IF ui = 0 THEN Outcome(200, users, pays, FALSE, 0)
               ELSE IF GrantNeeded(users, users[ui].id)
                    THEN Outcome(200,
                           addApiKeyForUser(users, e.userId,
                                            PaymentKey(e, v.callsPerMin, fresh)).file,
                           pays1, TRUE, users[ui].id)
                    ELSE Outcome(200, users, pays, FALSE, users[ui].id)

\* the payment_intent.succeeded branch with recordPayment moved out of
\* if (userId): the payment of an event without userId is recorded too
PaymentRecordsWithoutUser(users, pays, e, answer, fresh) ==
  IF e.userId = 0
  THEN Outcome(200, users, recordPayment(pays, 0, e.priceKeyName, e.amount, e.id), FALSE, 0)
  ELSE LET v == PaymentVerify(e, answer) IN
       IF v.reject THEN Outcome(400, users, pays, FALSE, e.userId)
       ELSE LET pays1 == recordPayment(pays, e.userId, e.priceKeyName, e.amount, e.id)
                ui == findUserById(users, e.userId)
            IN IF ui = 0 THEN Outcome(200, users, pays1, FALSE, 0)
               ELSE IF GrantNeeded(users, users[ui].id)
                    THEN Outcome(200,
                           addApiKeyForUser(users, e.userId,
                                            PaymentKey(e, v.callsPerMin, fresh)).file,
                           pays1, TRUE, users[ui].id)
                    ELSE Outcome(200, users, pays1, FALSE, users[ui].id)

\* the payment_intent.succeeded branch, run to completion
PaymentOutcome(users, pays, e, answer, fresh) ==
  IF e.userId = 0 THEN Outcome(200, users, pays, FALSE, 0)
  ELSE LET v == PaymentVerify(e, answer) IN
       IF v.reject THEN Outcome(400, users, pays, FALSE, e.userId)
       ELSE LET pays1 == recordPayment(pays, e.userId, e.priceKeyName, e.amount, e.id)
                ui == findUserById(users, e.userId)
            IN IF ui = 0 THEN Outcome(200, users, pays1, FALSE, 0)
               ELSE IF GrantNeeded(users, users[ui].id)
                    THEN Outcome(200,
                           addApiKeyForUser(users, e.userId,
                                            PaymentKey(e, v.callsPerMin, fresh)).file,
                           pays1, TRUE, users[ui].id)
                    ELSE Outcome(200, users, pays1, FALSE, users[ui].id)

\* the checkout.session.completed branch, run to completion.  answer is
\* "fail" when stripe.subscriptions.retrieve threw (caught and ignored),
\* otherwise the price id of the subscription
SubscriptionOutcome(users, pays, e, answer, fresh) ==
  IF e.subscriptionId = "" \/ answer = "fail" THEN Outcome(200, users, pays, FALSE, 0)
  ELSE LET ui == SubscriptionUser(users, e) IN
       IF ui = 0 THEN Outcome(200, users, pays, FALSE, 0)
       ELSE LET uid == users[ui].id
                pays1 == recordPayment(pays, uid, answer, e.amount, e.subscriptionId)
            IN IF GrantNeeded(users, uid)
               THEN Outcome(200,
                      addApiKeyForUser(users, uid, SubscriptionKey(e, answer, fresh)).file,
                      pays1, TRUE, uid)
               ELSE Outcome(200, users, pays1, FALSE, uid)

SubscriptionAnswers == {"fail", "price_50"}

WebhookRecord(e, answer, o, hadPaid) ==
  [op |-> "webhook", event |-> e, answer |-> answer, status |-> o.status,
   granted |-> o.granted, principal |-> o.principal, hadPaid |-> hadPaid]

\* POST /api/stripe/webhook with a signature-verified event
Webhook(e, answer) ==
  /\ Len(paymentsFile) < MaxPayments
  /\ LET o == IF e.type = "payment_intent.succeeded"
              THEN PaymentOutcome(usersFile, paymentsFile, e, answer, nextSecret)
              ELSE IF e.type = "checkout.session.completed"
              THEN SubscriptionOutcome(usersFile, paymentsFile, e, answer, nextSecret)
              ELSE Outcome(200, usersFile, paymentsFile, FALSE, 0)
     IN /\ o.granted => nextSecret <= MaxSecret
        /\ usersFile' = o.users
        /\ paymentsFile' = o.pays
        /\ nextSecret' = IF o.granted THEN nextSecret + 1 ELSE nextSecret
        /\ last' = WebhookRecord(e, answer, o,
                                 o.principal # 0 /\ SomePaid(listKeysForUser(usersFile, o.principal)))
  /\ UNCHANGED <<usageFile, redis, redisOn, now, ticks, calls, admitted, pc, loc>>

\* "none" is the answer of a billing-system call the handler does not make
PaymentAnswers(e) ==
  IF e.userId = 0 \/ e.priceKeyName = "" THEN {"none"}
  ELSE PriceAnswers(ResolvePriceId(e.priceKeyName))

WebhookPayment ==
  \E e \in PaymentEvents : \E answer \in PaymentAnswers(e) : Webhook(e, answer)

WebhookSubscription ==
  \E e \in SubscriptionEvents :
    \E answer \in (IF e.subscriptionId = "" THEN {"none"} ELSE SubscriptionAnswers) :
      Webhook(e, answer)

----------------------------------------------------------------------------
(* POST /api/keys (create key) and rotate *)

\* body.tier || "paid": any string the caller sends
Tiers == {"paid", "free", "pro"}

\* lines 43-51 of the create-key route
CreatedKey(tier, id) ==
  KeyRec(id, id, tier, IF tier = "free" THEN 5 ELSE 60, "", "",
         IF tier = "free" THEN "Free key" ELSE "Paid key")

\* a faulty variant of CreateRefused: nothing is refused
CreateNeverRefused(file, userId, tier) == FALSE

\* lines 35-41: a second key of tier 'paid' is refused
CreateRefused(file, userId, tier) ==
  tier = "paid" /\ SomePaid(listKeysForUser(file, userId))

CreateKey(u, tier) ==
  /\ CreateRefused(usersFile, u, tier) \/ nextSecret <= MaxSecret
  /\ IF CreateRefused(usersFile, u, tier)
     THEN /\ UNCHANGED <<usersFile, nextSecret>>
          /\ last' = [op |-> "create", userId |-> u, tier |-> tier, status |-> 400]
     ELSE /\ usersFile' = addApiKeyForUser(usersFile, u, CreatedKey(tier, nextSecret)).file
          /\ nextSecret' = nextSecret + 1
          /\ last' = [op |-> "create", userId |-> u, tier |-> tier, status |-> 200]
  /\ UNCHANGED <<paymentsFile, usageFile, redis, redisOn, now, ticks, calls, admitted,
                 pc, loc>>

\* the secret of the key rotate will change, 0 when no key has that id
SecretOfId(file, userId, keyId) ==
  LET keys == listKeysForUser(file, userId) IN
  IF FirstKeyWithId(keys, keyId) = 0 THEN 0 ELSE keys[FirstKeyWithId(keys, keyId)].key

\* rotateApiKeyForUser(userId, keyId) returning newKey
\* updateApiKeyName with the key looked up in every user's keys
updateApiKeyNameAnyUser(file, userId, keyId, name) ==
  [ok |-> FindUserIdx(file, userId) # 0,
   file |-> [i \in 1..Len(file) |->
               LET n == FirstKeyWithId(file[i].keys, keyId) IN
               IF n = 0 THEN file[i] ELSE [file[i] EXCEPT !.keys[n].name = name]]]

\* lib/db.ts updateApiKeyName: the first key of the user with this id gets
\* the name
updateApiKeyName(file, userId, keyId, name) ==
  LET i == FindUserIdx(file, userId) IN
  IF i = 0 THEN [ok |-> FALSE, file |-> file]
  ELSE LET n == FirstKeyWithId(file[i].keys, keyId) IN
       [ok |-> TRUE,
        file |-> IF n = 0 THEN file ELSE [file EXCEPT ![i].keys[n].name = name]]

Rotate(u, keyId) ==
  /\ nextSecret <= MaxSecret
  /\ usersFile' = rotateApiKeyForUser(usersFile, u, keyId, nextSecret).file
  /\ nextSecret' = nextSecret + 1
  /\ last' = [op |-> "rotate", userId |-> u, keyId |-> keyId,
              oldKey |-> SecretOfId(usersFile, u, keyId), newKey |-> nextSecret]
  /\ UNCHANGED <<paymentsFile, usageFile, redis, redisOn, now, ticks, calls, admitted,
                 pc, loc>>

----------------------------------------------------------------------------
(* DELETE /api/keys/[id]: the deletion guard *)

\* what stripe.subscriptions.list returns for one customer, and what
\* stripe.customers.list returns: ok = FALSE is a rejected promise
Sub(status, price) == [status |-> status, price |-> price]
SubsFail == [ok |-> FALSE, data |-> << >>]
SubsAnswers ==
  {SubsFail, [ok |-> TRUE, data |-> << >>]} \cup
  {[ok |-> TRUE, data |-> << Sub("active", pr) >>] : pr \in StripePriceIds} \cup
  {[ok |-> TRUE, data |-> << Sub("canceled", "price_50") >>]}

CustFail == [ok |-> FALSE, data |-> << >>]
CustAnswers ==
  {CustFail, [ok |-> TRUE, data |-> << >>]} \cup
  {[ok |-> TRUE, data |-> << sa >>] : sa \in SubsAnswers}

\* the answers of the billing system to one DELETE request
Billing(sub, price, cust) == [sub |-> sub, price |-> price, cust |-> cust]

NoKey == KeyRec(0, 0, "", 0, "", "", "")

\* lines 70-77: the first key of the acting user whose id or secret is id
DeletedKey(file, userId, id) ==
  LET keys == listKeysForUser(file, userId)
      hit(n) == keys[n].id = id \/ keys[n].key = id
  IN IF \E n \in 1..Len(keys) : hit(n)
     THEN keys[CHOOSE n \in 1..Len(keys) : hit(n) /\ \A m \in 1..(n - 1) : ~hit(m)]
     ELSE NoKey

\* the billing-system calls the guard makes for key k, with every answer each
\* can give
BillingAnswersFor(k) ==
  IF k = NoKey \/ k.tier = "free" THEN {Billing("none", "none", CustFail)}
  ELSE IF k.subscriptionId # ""
       THEN {Billing(a, "none", CustFail) : a \in {"fail"} \cup SubStatuses}
  ELSE IF k.priceKeyName # ""
       THEN {Billing("none", pa, ca) :
               pa \in PriceAnswers(ResolvePriceId(k.priceKeyName)), ca \in CustAnswers}
  ELSE {Billing("none", "none", ca) : ca \in CustAnswers}

\* .catch(() => ({ data: [] })) on both list calls: the subscriptions the
\* loops of lines 109-111 and 132-134 go through
RECURSIVE ListedSubs(_)
ListedSubs(custData) ==
  IF custData = << >> THEN << >>
  ELSE (IF Head(custData).ok THEN Head(custData).data ELSE << >>)
       \o ListedSubs(Tail(custData))

SubsSeen(b) == IF b.cust.ok THEN ListedSubs(b.cust.data) ELSE << >>

\* lines 116-122: items.some(...) for a subscription with one item
ItemMatches(s, targetPriceId, priceOk) ==
  \/ (targetPriceId # "" /\ s.price = targetPriceId)
  \/ (priceOk /\ s.price = targetPriceId)
  \/ (priceOk /\ StripeProduct(s.price) = StripeProduct(targetPriceId))

\* a faulty variant of GuardBlocks: only the key's subscriptionId is looked up
GuardChecksSubscriptionOnly(k, b) ==
  k.subscriptionId # "" /\ b.sub # "fail" /\ Live(b.sub)

\* lines 83-147: TRUE when the guard answers 400 instead of deleting
GuardBlocks(k, b) ==
  IF k.subscriptionId # ""
  THEN b.sub # "fail" /\ Live(b.sub)
  ELSE IF k.priceKeyName # ""
  THEN \E n \in 1..Len(SubsSeen(b)) :
         /\ Live(SubsSeen(b)[n].status)
         /\ ItemMatches(SubsSeen(b)[n], ResolvePriceId(k.priceKeyName), b.price = "ok")
  ELSE \E n \in 1..Len(SubsSeen(b)) : Live(SubsSeen(b)[n].status)

\* a faulty variant of DeleteOutcome: the free-tier check of lines 78-81 is
\* missing
DeleteSkipsFreeCheck(file, userId, id, b) ==
  LET k == DeletedKey(file, userId, id) IN
  IF k # NoKey /\ GuardBlocks(k, b) THEN [status |-> 400, users |-> file]
  ELSE [status |-> 200, users |-> removeApiKeyForUser(file, userId, id).file]

\* lines 65-156 for an authenticated acting user
DeleteOutcome(file, userId, id, b) ==
  LET k == DeletedKey(file, userId, id) IN
  IF k # NoKey /\ k.tier = "free" THEN [status |-> 400, users |-> file]
  ELSE IF k # NoKey /\ GuardBlocks(k, b) THEN [status |-> 400, users |-> file]
  ELSE [status |-> 200, users |-> removeApiKeyForUser(file, userId, id).file]

\* history: some billing-system call the guard made for key k failed
BillingFailed(k, b) ==
  \/ b.sub = "fail"
  \/ b.price = "fail"
  \/ (k # NoKey /\ k.tier # "free" /\ k.subscriptionId = "" /\
        (~b.cust.ok \/ \E n \in 1..Len(b.cust.data) : ~b.cust.data[n].ok))

\* history: the billing system answered with a live subscription that is the
\* one of k's subscriptionId, or that carries k's price identifier
LiveMatch(k, b) ==
  \/ (k.subscriptionId # "" /\ b.sub \notin {"fail", "none"} /\ Live(b.sub))
  \/ (k.priceKeyName # "" /\
        \E n \in 1..Len(SubsSeen(b)) :
          /\ Live(SubsSeen(b)[n].status)
          /\ SubsSeen(b)[n].price = ResolvePriceId(k.priceKeyName))

Delete(u, id) ==
  /\ \E b \in BillingAnswersFor(DeletedKey(usersFile, u, id)) :
       LET o == DeleteOutcome(usersFile, u, id, b)
           k == DeletedKey(usersFile, u, id)
       IN /\ usersFile' = o.users
          /\ last' = [op |-> "delete", userId |-> u, id |-> id, key |-> k,
                      failed |-> BillingFailed(k, b), liveMatch |-> LiveMatch(k, b),
                      status |-> o.status]
  /\ UNCHANGED <<paymentsFile, usageFile, redis, redisOn, now, ticks, nextSecret, calls,
                 admitted, pc, loc>>

----------------------------------------------------------------------------
(* The handlers of the KeyStore and the reconciler, one request at a time *)

\* the identifiers a request of user u can name: the ids and the secrets of
\* u's keys, and one identifier that names no key of u
NoSuchId == MaxSecret + 1

KeyIds(file, u) ==
  {listKeysForUser(file, u)[n].id : n \in 1..Len(listKeysForUser(file, u))} \ {0}

KeySecrets(file, u) ==
  {listKeysForUser(file, u)[n].key : n \in 1..Len(listKeysForUser(file, u))}

RotateRequest ==
  \E u \in Users : \E keyId \in KeyIds(usersFile, u) \cup {NoSuchId} : Rotate(u, keyId)

DeleteRequest ==
  \E u \in Users :
    \E id \in KeyIds(usersFile, u) \cup KeySecrets(usersFile, u) \cup {NoSuchId} :
      Delete(u, id)

\* the rate limiter takes no part in these handlers: its configuration is fixed
InitKeyStore == Init /\ ~redisOn /\ usageFile.kind = "object"

Spec ==
  InitKeyStore /\ [][
    \/ WebhookPayment
    \/ WebhookSubscription
    \/ \E u \in Users, tier \in Tiers : CreateKey(u, tier)
    \/ RotateRequest
    \/ DeleteRequest
    ]_vars

----------------------------------------------------------------------------
(* AccessGate: api/predict/route.ts *)

\* String.prototype.toUpperCase, one character
UpperChar(c) ==
  CASE c = "a" -> "A"
    [] c = "b" -> "B"
    [] c = "c" -> "C"
    [] c = "d" -> "D"
    [] c = "e" -> "E"
    [] c = "f" -> "F"
    [] c = "g" -> "G"
    [] c = "h" -> "H"
    [] c = "i" -> "I"
    [] c = "j" -> "J"
    [] c = "k" -> "K"
    [] c = "l" -> "L"
    [] c = "m" -> "M"
    [] c = "n" -> "N"
    [] c = "o" -> "O"
    [] c = "p" -> "P"
    [] c = "q" -> "Q"
    [] c = "r" -> "R"
    [] c = "s" -> "S"
    [] c = "t" -> "T"
    [] c = "u" -> "U"
    [] c = "v" -> "V"
    [] c = "w" -> "W"
    [] c = "x" -> "X"
    [] c = "y" -> "Y"
    [] c = "z" -> "Z"
    [] OTHER -> c

RECURSIVE ToUpperCase(_)
ToUpperCase(str) ==
  IF Len(str) = 0 THEN ""
  ELSE UpperChar(SubSeq(str, 1, 1)) \o ToUpperCase(SubSeq(str, 2, Len(str)))

PaidTier(n) ==
  CASE n = 10 -> "paid_10" [] n = 25 -> "paid_25" [] n = 50 -> "paid_50"
    [] n = 150 -> "paid_150" [] n = 500 -> "paid_500"

\* lines 30-32, from the i-th env name on: the tier of the env name that
\* priceKey is, "" when it is none
RECURSIVE TierByEnvName(_, _)
TierByEnvName(priceKey, i) ==
  IF i > Len(EnvNames) THEN ""
  ELSE IF priceKey = EnvNames[i] THEN PaidTier(ENV_PRICE_TO_CALLS(EnvNames[i]))
  ELSE TierByEnvName(priceKey, i + 1)

\* lines 34-37, from the i-th env name on: the tier of the env name whose
\* configured price id priceKey is, "" when there is none
RECURSIVE TierByPriceId(_, _)
TierByPriceId(priceKey, i) ==
  IF i > Len(EnvNames) THEN ""
  ELSE IF ProcessEnv(EnvNames[i]) # "" /\ ProcessEnv(EnvNames[i]) = priceKey
       THEN PaidTier(ENV_PRICE_TO_CALLS(EnvNames[i]))
  ELSE TierByPriceId(priceKey, i + 1)

\* lines 27-45
detectTierKeyFromPriceKey(priceKey) ==
  LET up == ToUpperCase(priceKey) IN
  IF priceKey = "" THEN "paid_10"
  ELSE IF TierByEnvName(priceKey, 1) # "" THEN TierByEnvName(priceKey, 1)
  ELSE IF TierByPriceId(priceKey, 1) # "" THEN TierByPriceId(priceKey, 1)
  ELSE IF Includes(up, "TEN") THEN "paid_10"
  ELSE IF Includes(up, "TWENTY") \/ Includes(up, "TWENTYFIVE") THEN "paid_25"
  ELSE IF Includes(up, "FIFTY") THEN "paid_50"
  ELSE IF Includes(up, "HUNDRED") THEN "paid_150"
  ELSE IF Includes(up, "FIVEHUNDRED") \/ Includes(up, "500") THEN "paid_500"
  ELSE "paid_10"

\* lines 10-17
TIERS(tierKeyName) ==
  CASE tierKeyName = "free" -> [minute |-> 5, day |-> 25]
    [] tierKeyName = "paid_10" -> [minute |-> 10, day |-> 10 * 720]
    [] tierKeyName = "paid_25" -> [minute |-> 25, day |-> 25 * 720]
    [] tierKeyName = "paid_50" -> [minute |-> 50, day |-> 50 * 720]
    [] tierKeyName = "paid_150" -> [minute |-> 150, day |-> 150 * 720]
    [] tierKeyName = "paid_500" -> [minute |-> 500, day |-> 500 * 720]

\* lines 54-62: the limits enforced for key record k
LimitsOf(k) ==
  TIERS(IF k.tier = "free" THEN "free" ELSE detectTierKeyFromPriceKey(k.priceKeyName))

\* a faulty variant of Gate: the quota check runs before the key is looked up
GateChargesUnknown(users, r, f, useRedis, secret, t) ==
  LET hit == findUserByApiKey(users, secret)
      limits == IF secret = 0 \/ hit.u = 0 THEN TIERS("free")
                ELSE LimitsOf(users[hit.u].keys[hit.k])
      c == checkAndIncrementKey(r, f, useRedis, secret, limits.minute, limits.day, t)
  IN [status |-> IF secret = 0 \/ hit.u = 0 THEN 401
                 ELSE IF c.res.allowed THEN 0 ELSE 429,
      redis |-> c.redis, file |-> c.file, res |-> c.res]

\* lines 48-66: authentication and admission of a request bearing secret
\* (0 when the header is missing): status 401, 429, or 0 when admitted,
\* with the stores the quota check leaves
Gate(users, r, f, useRedis, secret, t) ==
  LET hit == findUserByApiKey(users, secret) IN
  IF secret = 0 \/ hit.u = 0
  THEN [status |-> 401, redis |-> r, file |-> f,
        res |-> [allowed |-> FALSE, minuteRemaining |-> 0, dayRemaining |-> 0]]
  ELSE LET limits == LimitsOf(users[hit.u].keys[hit.k])
           c == checkAndIncrementKey(r, f, useRedis, secret, limits.minute, limits.day, t)
       IN [status |-> IF c.res.allowed THEN 0 ELSE 429,
           redis |-> c.redis, file |-> c.file, res |-> c.res]

\* lines 90-95: the usage counter of the key, on the usages the handler read
RecordUsage(usages, key) ==
  WithEntry(usages, key,
            IF key \in DOMAIN usages.entries
            THEN [usages.entries[key] EXCEPT !.calls = @ + 1]
            ELSE UsageEntry(-1, 0, -1, 0, 1))

\* what predictTicker does: a forecast, or an error whose message the
\* handler classifies (lines 102-114)
PredictorOutcomes == {"forecast", "invalid ticker", "timed out", "model not found", "other"}

PredictorStatus(outcome) ==
  CASE outcome = "forecast" -> 200
    [] outcome = "invalid ticker" -> 400
    [] outcome = "timed out" -> 504
    [] outcome = "model not found" -> 400
    [] OTHER -> 500

\* POST /api/predict, run to completion: ticker is FALSE when the body names
\* no ticker, writeOk is FALSE when the usage write of lines 90-95 throws
Predict(secret, ticker, outcome, writeOk) ==
  /\ calls < MaxPredicts
  /\ LET g == Gate(usersFile, redis, usageFile, redisOn, secret, now)
         status == IF g.status # 0 THEN g.status
                   ELSE IF ~ticker THEN 400
                   ELSE PredictorStatus(outcome)
     IN /\ redis' = g.redis
        /\ usageFile' = IF status = 200 /\ writeOk
                        THEN RecordUsage(ReadUsage(g.file), secret)
                        ELSE g.file
        /\ calls' = IF g.status = 401 THEN calls ELSE calls + 1
        /\ last' = [op |-> "predict", key |-> secret, status |-> status,
                    admitted |-> (g.status = 0)]
  /\ UNCHANGED <<usersFile, paymentsFile, redisOn, now, ticks, nextSecret, admitted, pc, loc>>

\* the requests: inputs a branch does not read take one value
PredictRequest ==
  \/ \E secret \in 0..MaxSecret : Predict(secret, FALSE, "forecast", TRUE)
  \/ \E secret \in Secrets, outcome \in PredictorOutcomes :
       Predict(secret, TRUE, outcome, TRUE)
  \/ \E secret \in Secrets : Predict(secret, TRUE, "forecast", FALSE)

SpecGate ==
  Init /\ [][
    \/ PredictRequest
    \/ \E u \in Users, tier \in Tiers : CreateKey(u, tier)
    \/ RotateRequest
    ]_vars

----------------------------------------------------------------------------
(* The payment_intent.succeeded branch under concurrent deliveries: one step
   per await of webhook/route.ts lines 149-188 and of the db.ts helpers it
   calls.  Deliveries in flight together carry the same event. *)

HookRecord(e, status, granted) ==
  [op |-> "hook", event |-> e, status |-> status, granted |-> granted]

HookLoc(e, callsPerMin, pays, newKey, users) ==
  [op |-> "hook", event |-> e, callsPerMin |-> callsPerMin, pays |-> pays,
   newKey |-> newKey, users |-> users]

\* the handler returns
HookDone(p, e, status, granted) ==
  /\ pc' = [pc EXCEPT ![p] = "idle"]
  /\ loc' = [loc EXCEPT ![p] = Idle]
  /\ last' = HookRecord(e, status, granted)

\* lines 149-173: the event arrives and its amount is checked
HookStart(p, e, answer) ==
  /\ pc[p] = "idle"
  /\ Len(paymentsFile) < MaxPayments
  /\ \A q \in Procs : pc[q] # "idle" => loc[q].event = e
  /\ LET v == PaymentVerify(e, answer) IN
       IF e.userId = 0 THEN HookDone(p, e, 200, FALSE)
       ELSE IF v.reject THEN HookDone(p, e, 400, FALSE)
       ELSE /\ pc' = [pc EXCEPT ![p] = "recordRead"]
            /\ loc' = [loc EXCEPT ![p] = HookLoc(e, v.callsPerMin, << >>, NoKey, << >>)]
            /\ last' = last
  /\ UNCHANGED <<usersFile, paymentsFile, usageFile, redis, redisOn, now, ticks,
                 nextSecret, calls, admitted>>

\* recordPayment: await readJson('payments.json')
HookRecordRead(p) ==
  /\ pc[p] = "recordRead"
  /\ loc' = [loc EXCEPT ![p].pays = paymentsFile]
  /\ pc' = [pc EXCEPT ![p] = "recordWrite"]
  /\ UNCHANGED <<usersFile, paymentsFile, usageFile, redis, redisOn, now, ticks,
                 nextSecret, calls, admitted, last>>

\* recordPayment: payments.push(...), await writeJson('payments.json')
HookRecordWrite(p) ==
  /\ pc[p] = "recordWrite"
  /\ paymentsFile' = recordPayment(loc[p].pays, loc[p].event.userId,
                                   loc[p].event.priceKeyName, loc[p].event.amount,
                                   loc[p].event.id)
  /\ pc' = [pc EXCEPT ![p] = "findUser"]
  /\ UNCHANGED <<usersFile, usageFile, redis, redisOn, now, ticks, nextSecret, calls,
                 admitted, last, loc>>

\* line 178: await findUserById(userId)
HookFindUser(p) ==
  /\ pc[p] = "findUser"
  /\ IF findUserById(usersFile, loc[p].event.userId) = 0
     THEN HookDone(p, loc[p].event, 200, FALSE)
     ELSE /\ pc' = [pc EXCEPT ![p] = "listKeys"]
          /\ UNCHANGED <<loc, last>>
  /\ UNCHANGED <<usersFile, paymentsFile, usageFile, redis, redisOn, now, ticks,
                 nextSecret, calls, admitted>>

\* lines 181-184: await listKeysForUser(user.id), the check, randomUUID()
HookListKeys(p) ==
  /\ pc[p] = "listKeys"
  /\ IF GrantNeeded(usersFile, loc[p].event.userId)
     THEN /\ nextSecret <= MaxSecret
          /\ nextSecret' = nextSecret + 1
          /\ loc' = [loc EXCEPT ![p].newKey =
                       PaymentKey(loc[p].event, loc[p].callsPerMin, nextSecret)]
          /\ pc' = [pc EXCEPT ![p] = "addRead"]
          /\ last' = last
     ELSE /\ HookDone(p, loc[p].event, 200, FALSE)
          /\ nextSecret' = nextSecret
  /\ UNCHANGED <<usersFile, paymentsFile, usageFile, redis, redisOn, now, ticks,
                 calls, admitted>>

\* addApiKeyForUser: await readJson('users.json')
HookAddRead(p) ==
  /\ pc[p] = "addRead"
  /\ loc' = [loc EXCEPT ![p].users = usersFile]
  /\ pc' = [pc EXCEPT ![p] = "addWrite"]
  /\ UNCHANGED <<usersFile, paymentsFile, usageFile, redis, redisOn, now, ticks,
                 nextSecret, calls, admitted, last>>

\* addApiKeyForUser: user.keys.push(keyObj), await writeJson('users.json')
HookAddWrite(p) ==
  /\ pc[p] = "addWrite"
  /\ usersFile' = addApiKeyForUser(loc[p].users, loc[p].event.userId, loc[p].newKey).file
  /\ HookDone(p, loc[p].event, 200, TRUE)
  /\ UNCHANGED <<paymentsFile, usageFile, redis, redisOn, now, ticks, nextSecret,
                 calls, admitted>>

HookDelivery ==
  \E p \in Procs, e \in PaymentEvents : \E answer \in PaymentAnswers(e) :
    HookStart(p, e, answer)

SpecHook ==
  InitKeyStore /\ [][
    \/ HookDelivery
    \/ \E p \in Procs : HookRecordRead(p)
    \/ \E p \in Procs : HookRecordWrite(p)
    \/ \E p \in Procs : HookFindUser(p)
    \/ \E p \in Procs : HookListKeys(p)
    \/ \E p \in Procs : HookAddRead(p)
    \/ \E p \in Procs : HookAddWrite(p)
    ]_vars

\* C3: when the deliveries of one billing event that ran concurrently have
\* all returned, the principal holds at most one paid key.
C3_NoDoubleGrant ==
  (\A p \in Procs : pc[p] = "idle") => \A u \in Users : PaidCount(usersFile, u) <= 1

----------------------------------------------------------------------------
(* Properties of the key store handlers, under Spec *)

\* C4: at every moment each principal holds at most one key of tier 'paid'
\* (handlers run one at a time).
C4_AtMostOnePaid == \A u \in Users : PaidCount(usersFile, u) <= 1

\* a second paid key was asked for and refused
C4_Witness ==
  /\ last.op = "create" /\ last.tier = "paid" /\ last.status = 400
  /\ PaidCount(usersFile, last.userId) = 1

\* C2: a delivery of the event the previous delivery carried leaves the
\* principal with at most one paid key, adds no key to a principal who holds
\* a paid key, and appends at most one payment row.
C2_ReplayKeepsOnePaid ==
  [][(last.op = "webhook" /\ last'.op = "webhook" /\ last'.event = last.event)
       => /\ \A u \in Users : PaidCount(usersFile', u) <= 1
          /\ (last'.principal # 0 /\ PaidCount(usersFile, last'.principal) >= 1)
               => usersFile' = usersFile
          /\ Len(paymentsFile') \in {Len(paymentsFile), Len(paymentsFile) + 1}]_vars

\* the same event was delivered twice: the first delivery granted the key,
\* the second found it and only recorded the payment
C2_Witness ==
  /\ last.op = "webhook" /\ last.status = 200 /\ last.hadPaid /\ ~last.granted
  /\ Len(paymentsFile) = 2 /\ paymentsFile[1] = paymentsFile[2]
  /\ PaidCount(usersFile, last.principal) = 1

\* C10: a payment event whose price lookup failed grants no key and leaves
\* the users' keys as they were.
C10_LookupFailureSkipsGrant ==
  [][(last'.op = "webhook" /\ last'.event.type = "payment_intent.succeeded"
        /\ last'.answer = "fail")
       => usersFile' = usersFile]_vars

\* C9: no handler removes a key of tier 'free': a DELETE that names one is
\* answered 400 and changes nothing, and no step lowers a principal's number
\* of free keys.
C9_FreeKeyStays ==
  [][/\ \A u \in Users : FreeCount(usersFile', u) >= FreeCount(usersFile, u)
     /\ (last'.op = "delete" /\ last'.key.tier = "free")
          => (last'.status = 400 /\ usersFile' = usersFile)]_vars

C9_Witness ==
  /\ last.op = "delete" /\ last.key.tier = "free" /\ last.status = 400
  /\ FreeCount(usersFile, last.userId) >= 1

C8_FailedQueryBlocks ==
  (last.op = "delete" /\ last.key.tier = "paid" /\ last.failed)
    => /\ last.status = 400
       /\ DeletedKey(usersFile, last.userId, last.id) = last.key

----------------------------------------------------------------------------
(* Properties of the access gate, under SpecGate *)

\* C5: right after rotateApiKeyForUser has returned a new secret for an
\* existing key of the principal, the old secret finds nothing and a predict
\* request bearing it is answered 401, while the new secret finds the rotated
\* key of that principal and a predict request bearing it passes the gate.
C5_RotateSwitchesSecret ==
  (last.op = "rotate" /\ last.oldKey # 0)
    => /\ findUserByApiKey(usersFile, last.oldKey) = [u |-> 0, k |-> 0]
       /\ Gate(usersFile, redis, usageFile, redisOn, last.oldKey, now).status = 401
       /\ LET hit == findUserByApiKey(usersFile, last.newKey) IN
            /\ hit.u # 0
            /\ usersFile[hit.u].id = last.userId
            /\ usersFile[hit.u].keys[hit.k].id = last.keyId
       /\ Gate(usersFile, redis, usageFile, redisOn, last.newKey, now).status = 0

\* a key that had been used was rotated
C5_Witness ==
  /\ last.op = "rotate" /\ last.oldKey # 0
  /\ calls > 0
  /\ \/ RedisGet(redis, MinuteKey(last.oldKey, now)) > 0
     \/ (usageFile.kind = "object" /\ last.oldKey \in DOMAIN usageFile.entries)

----------------------------------------------------------------------------
(* Properties of the reconciler's price handling, under Spec *)

\* C11: a one-off payment event whose amount differs from the configured
\* amount of its price identifier is rejected and adds no key.
C11_MismatchNotGranted ==
  (/\ last.op = "webhook" /\ last.event.type = "payment_intent.succeeded"
   /\ last.event.userId # 0 /\ last.event.priceKeyName # ""
   /\ ResolvePriceId(last.event.priceKeyName) \in StripePriceIds
   /\ last.event.amount # StripeUnitAmount(ResolvePriceId(last.event.priceKeyName)))
    => (last.status = 400 /\ ~last.granted)

----------------------------------------------------------------------------
(* The two price mappings side by side: getCallsFromPriceKey of the
   reconciler and detectTierKeyFromPriceKey / TIERS of the access gate,
   applied to one price identifier *)

\* price identifiers: the env names of the table, the configured price ids,
\* the name the dashboard sends ('TWENTYCALLS_PRICE_ID'), and other strings
PriceKeyPrefixes == {"", "my_"}
PriceKeyStems == {"TEN", "TWENTY", "TWENTYFIVE", "FIFTY", "HUNDREDFIFTY", "FIVEHUNDRED",
                  "ten", "fifty", "price_", "plan", "500"}
PriceKeySuffixes == {"", "CALLS", "CALLS_PRICE_ID", "10", "50"}

PriceKeys ==
  {pre \o stem \o suf :
     pre \in PriceKeyPrefixes, stem \in PriceKeyStems, suf \in PriceKeySuffixes}

\* webhook/route.ts line 168 with line 184 (limit: callsPerMin), and
\* predict/route.ts lines 58-63 (limits.minute) for a key that stores priceKey
Resolve(priceKey) ==
  /\ last' = [op |-> "resolve", priceKey |-> priceKey,
              granted |-> getCallsFromPriceKey(priceKey),
              enforced |-> TIERS(detectTierKeyFromPriceKey(priceKey)).minute]
  /\ UNCHANGED <<usersFile, paymentsFile, usageFile, redis, redisOn, now, ticks,
                 nextSecret, calls, admitted, pc, loc>>

SpecPrice == InitKeyStore /\ [][\E priceKey \in PriceKeys : Resolve(priceKey)]_vars

\* C12: for every price identifier the calls-per-minute the reconciler
\* grants equals the minute limit the access gate enforces.
C12_OneMapping ==
  last.op = "resolve" => last.granted = last.enforced

----------------------------------------------------------------------------
(* The FIFTYCALLS scenario, under Spec *)

\* C13: a payment event for FIFTYCALLS whose amount equals the configured
\* price gives a principal without a paid key one paid key of limit 50, and
\* a delivery to a principal who already holds the key adds no second one.
C13_FiftyGrantsFifty ==
  (/\ last.op = "webhook" /\ last.event.type = "payment_intent.succeeded"
   /\ last.event.userId # 0 /\ last.event.priceKeyName = "FIFTYCALLS_PRICE_ID"
   /\ last.event.amount = StripeUnitAmount(ProcessEnv("FIFTYCALLS_PRICE_ID")))
    => /\ last.status = 200
       /\ PaidCount(usersFile, last.event.userId) = 1
       /\ last.hadPaid => ~last.granted
       /\ ~last.hadPaid =>
            /\ last.granted
            /\ LET keys == listKeysForUser(usersFile, last.event.userId) IN
               \E n \in 1..Len(keys) : keys[n].tier = "paid" /\ keys[n].limit = 50

----------------------------------------------------------------------------
(* The access gate on keys the reconciler granted: payment events and
   predict requests, each run to completion *)

SpecTier ==
  InitKeyStore /\ [][
    \/ WebhookPayment
    \/ PredictRequest
    ]_vars

\* C14: a request bearing a paid key whose stored price identifier is
\* neither an env name of the mapping nor a configured price id is not
\* admitted.
C14_UnresolvedNotAdmitted ==
  LET hit == findUserByApiKey(usersFile, last.key) IN
  (/\ last.op = "predict" /\ last.key # 0 /\ hit.u # 0
   /\ usersFile[hit.u].keys[hit.k].tier # "free"
   /\ usersFile[hit.u].keys[hit.k].priceKeyName # ""
   /\ TierByEnvName(usersFile[hit.u].keys[hit.k].priceKeyName, 1) = ""
   /\ TierByPriceId(usersFile[hit.u].keys[hit.k].priceKeyName, 1) = "")
    => ~last.admitted

----------------------------------------------------------------------------
(* What checkAndIncrementKey commits and reports, under SpecRLSeq *)

\* the minute count stored for key in the window of time t: the Redis
\* counter of the window (lines 88-91), or the minuteCount of the usage.json
\* entry after the reset of lines 119-122
StoredMinuteCount(r, f, useRedis, key, t) ==
  IF useRedis THEN RedisGet(r, MinuteKey(key, t))
  ELSE EntryAt(ReadUsage(f), key, t).minuteCount

\* the day count stored for key on the day of time t (lines 89, 98 and
\* 125-128)
StoredDayCount(r, f, useRedis, key, t) ==
  IF useRedis THEN RedisGet(r, DayKey(key, t))
  ELSE EntryAt(ReadUsage(f), key, t).dayCount

\* C15: a rejected call leaves the stored minute count and day count of
\* its key, in the windows of the call, as they were before the call.
C15_RejectCommitsNothing ==
  [][(last'.op = "check" /\ calls' = calls + 1 /\ ~last'.res.allowed)
       => /\ StoredMinuteCount(redis', usageFile', redisOn, last'.key, now)
               = StoredMinuteCount(redis, usageFile, redisOn, last'.key, now)
          /\ StoredDayCount(redis', usageFile', redisOn, last'.key, now)
               = StoredDayCount(redis, usageFile, redisOn, last'.key, now)]_vars

\* C16: a rejected call reports limit minus the count before the call for
\* both windows, an admitted call limit minus the count after its increment.
C16_RemainingReported ==
  [][(last'.op = "check" /\ calls' = calls + 1)
       => LET mBefore == StoredMinuteCount(redis, usageFile, redisOn, last'.key, now)
              dBefore == StoredDayCount(redis, usageFile, redisOn, last'.key, now)
          IN IF last'.res.allowed
             THEN /\ last'.res.minuteRemaining = last'.minuteLimit - (mBefore + 1)
                  /\ last'.res.dayRemaining = last'.dayLimit - (dBefore + 1)
             ELSE /\ last'.res.minuteRemaining = last'.minuteLimit - mBefore
                  /\ last'.res.dayRemaining = last'.dayLimit - dBefore]_vars

----------------------------------------------------------------------------
(* POST /api/predict on the signup key of user 1, one request at a time,
   with the passage of time *)

MaxRequests == 7

\* the secret of the free key signup gave user 1
FreeSecret == InitUsers[1].keys[1].key

\* lines 49, 53, 65, 71 and 97-113: the JSON body of the response
ResponseBody(status, res) ==
  IF status = 429
  THEN [error |-> "Rate limit exceeded", minuteRemaining |-> res.minuteRemaining,
        dayRemaining |-> res.dayRemaining]
  ELSE IF status = 200 THEN [prediction |-> "forecast"]
  ELSE [error |-> "error"]

\* POST /api/predict, run to completion as in Predict, with the response
\* body and the admissions of the key in the record of the request
Request(secret, ticker, outcome, writeOk) ==
  /\ calls < MaxRequests
  /\ LET g == Gate(usersFile, redis, usageFile, redisOn, secret, now)
         status == IF g.status # 0 THEN g.status
                   ELSE IF ~ticker THEN 400
                   ELSE PredictorStatus(outcome)
     IN /\ redis' = g.redis
        /\ usageFile' = IF status = 200 /\ writeOk
                        THEN RecordUsage(ReadUsage(g.file), secret)
                        ELSE g.file
        /\ calls' = IF g.status = 401 THEN calls ELSE calls + 1
        /\ admitted' = IF g.status = 0 THEN Admit(admitted, secret, now) ELSE admitted
        /\ last' = [op |-> "request", key |-> secret, t |-> now, ticker |-> ticker,
                    status |-> status, admitted |-> (g.status = 0),
                    body |-> ResponseBody(status, g.res),
                    admittedBefore |-> AdmittedIn(admitted, secret, MinuteWindow(now)),
                    prevAdmitted |-> AdmittedIn(admitted, secret, MinuteWindow(now) - 1)]
  /\ UNCHANGED <<usersFile, paymentsFile, redisOn, now, ticks, nextSecret, pc, loc>>

\* the requests: without a secret, with a secret no key has, and with the
\* free key; inputs a branch does not read take one value
QuotaRequest ==
  \/ \E secret \in {0, NoSuchId} : Request(secret, TRUE, "forecast", TRUE)
  \/ Request(FreeSecret, FALSE, "forecast", TRUE)
  \/ \E outcome \in {"forecast", "timed out"} : Request(FreeSecret, TRUE, outcome, TRUE)

SpecQuota ==
  Init /\ [][
    \/ QuotaRequest
    \/ Tick
    ]_vars

\* C17: a request without a secret or with a secret no key has is answered
\* 401 and leaves the Redis counters and usage.json as they were; a response
\* of status 429 carries minuteRemaining and dayRemaining in its body.
C17_UnauthorizedAndLimited ==
  [][last'.op = "request" =>
       /\ (last'.key = 0 \/ findUserByApiKey(usersFile', last'.key).u = 0)
            => (last'.status = 401 /\ redis' = redis /\ usageFile' = usageFile)
       /\ last'.status = 429
            => /\ {"minuteRemaining", "dayRemaining"} \subseteq DOMAIN last'.body
               /\ last'.body.minuteRemaining \in Nat
               /\ last'.body.dayRemaining \in Nat]_vars

\* a request with an unknown secret was answered 401 after the sixth request
\* of the window on the free key had been answered 429 (its INCR left the
\* minute counter above the limit)
C17_Witness ==
  /\ last.op = "request" /\ last.status = 401 /\ last.key = NoSuchId
  /\ redisOn
  /\ RedisGet(redis, MinuteKey(FreeSecret, now)) > TIERS("free").minute

\* C18: a request answered 400 because its body names no ticker leaves the
\* stored minute count and day count of its key as they were.
C18_MalformedLeavesCounters ==
  [][(last'.op = "request" /\ calls' = calls + 1 /\ ~last'.ticker /\ last'.status = 400)
       => /\ StoredMinuteCount(redis', usageFile', redisOn, last'.key, now)
               = StoredMinuteCount(redis, usageFile, redisOn, last'.key, now)
          /\ StoredDayCount(redis', usageFile', redisOn, last'.key, now)
               = StoredDayCount(redis, usageFile, redisOn, last'.key, now)]_vars

\* C20: on the free key of a new user a request is admitted while fewer than
\* 5 requests were admitted in its minute window, a request made after 5
\* were admitted is answered 429 with minuteRemaining 0, and the first
\* request of the window that follows an exhausted window is admitted.
C20_FreeKeyFivePerMinute ==
  (last.op = "request" /\ last.key = FreeSecret) =>
    /\ last.admittedBefore < 5 => last.admitted
    /\ last.admittedBefore = 5 =>
         /\ last.status = 429
         /\ last.body.minuteRemaining = 0
    /\ (last.admittedBefore = 0 /\ last.prevAdmitted = 5) => last.admitted

----------------------------------------------------------------------------
(* POST /api/predict by concurrent requests.  A handler yields at each
   await: here the quota check of line 63 is taken as one step (its own
   interleavings are those of SpecRL), then predictTicker (line 87), the
   readJson of line 90 and the writeJson of line 94 are one step each *)

PredictLoc(key, t, usages) ==
  [op |-> "predict", key |-> key, t |-> t, usages |-> usages]

\* lines 48-66
PredictStart(p, secret) ==
  /\ pc[p] = "idle"
  /\ calls < MaxCalls
  /\ calls' = calls + 1
  /\ LET g == Gate(usersFile, redis, usageFile, redisOn, secret, now) IN
       /\ redis' = g.redis
       /\ usageFile' = g.file
       /\ IF g.status = 0
          THEN /\ pc' = [pc EXCEPT ![p] = "predicting"]
               /\ loc' = [loc EXCEPT ![p] = PredictLoc(secret, now, << >>)]
               /\ UNCHANGED last
          ELSE /\ last' = [op |-> "predict", key |-> secret, status |-> g.status,
                           admitted |-> FALSE]
               /\ UNCHANGED <<pc, loc>>
  /\ UNCHANGED <<usersFile, paymentsFile, redisOn, now, ticks, nextSecret, admitted>>

\* lines 86-87 and 100-114: await predictTicker; an error is answered at once
PredictReturns(p, outcome) ==
  /\ pc[p] = "predicting"
  /\ IF outcome = "forecast"
     THEN /\ pc' = [pc EXCEPT ![p] = "recordRead"]
          /\ UNCHANGED <<loc, last>>
     ELSE /\ pc' = [pc EXCEPT ![p] = "idle"]
          /\ loc' = [loc EXCEPT ![p] = Idle]
          /\ last' = [op |-> "predict", key |-> loc[p].key,
                      status |-> PredictorStatus(outcome), admitted |-> TRUE]
  /\ UNCHANGED <<usersFile, paymentsFile, usageFile, redis, redisOn, now, ticks,
                 nextSecret, calls, admitted>>

\* line 90: await readJson('usage.json')
PredictRecordRead(p) ==
  /\ pc[p] = "recordRead"
  /\ loc' = [loc EXCEPT ![p] = PredictLoc(loc[p].key, loc[p].t, ReadUsage(usageFile))]
  /\ pc' = [pc EXCEPT ![p] = "recordWrite"]
  /\ UNCHANGED <<usersFile, paymentsFile, usageFile, redis, redisOn, now, ticks,
                 nextSecret, calls, admitted, last>>

\* lines 91-98 with a failure of writeJson answered 500 instead of caught
PredictRecordWriteThrows(p, writeOk) ==
  /\ pc[p] = "recordWrite"
  /\ usageFile' = IF writeOk THEN RecordUsage(loc[p].usages, loc[p].key) ELSE usageFile
  /\ last' = [op |-> "predict", key |-> loc[p].key,
              status |-> IF writeOk THEN 200 ELSE 500,
              admitted |-> TRUE, recorded |-> writeOk]
  /\ pc' = [pc EXCEPT ![p] = "idle"]
  /\ loc' = [loc EXCEPT ![p] = Idle]
  /\ UNCHANGED <<usersFile, paymentsFile, redis, redisOn, now, ticks, nextSecret,
                 calls, admitted>>

\* lines 91-98: await writeJson('usage.json', usages), whose failure the
\* inner catch logs and drops, then the response
PredictRecordWrite(p, writeOk) ==
  /\ pc[p] = "recordWrite"
  /\ usageFile' = IF writeOk THEN RecordUsage(loc[p].usages, loc[p].key) ELSE usageFile
  /\ last' = [op |-> "predict", key |-> loc[p].key, status |-> 200,
              admitted |-> TRUE, recorded |-> writeOk]
  /\ pc' = [pc EXCEPT ![p] = "idle"]
  /\ loc' = [loc EXCEPT ![p] = Idle]
  /\ UNCHANGED <<usersFile, paymentsFile, redis, redisOn, now, ticks, nextSecret,
                 calls, admitted>>

SpecUsage ==
  Init /\ [][
    \/ \E p \in Procs, secret \in {0, FreeSecret} : PredictStart(p, secret)
    \/ \E p \in Procs, outcome \in PredictorOutcomes : PredictReturns(p, outcome)
    \/ \E p \in Procs : PredictRecordRead(p)
    \/ \E p \in Procs, writeOk \in BOOLEAN : PredictRecordWrite(p, writeOk)
    ]_vars

\* C19: no step a handler takes after its request was admitted (the return
\* of the Predictor, the read and the write of the usage record) changes
\* the stored minute count or day count of any key.
C19_ChargeStays ==
  [][\A p \in Procs :
       (pc[p] \in {"predicting", "recordRead", "recordWrite"} /\ pc'[p] # pc[p])
         => \A key \in Secrets :
              /\ StoredMinuteCount(redis', usageFile', redisOn, key, now)
                   = StoredMinuteCount(redis, usageFile, redisOn, key, now)
              /\ StoredDayCount(redis', usageFile', redisOn, key, now)
                   = StoredDayCount(redis, usageFile, redisOn, key, now)]_vars

----------------------------------------------------------------------------
(* checkAndIncrementKey, one call at a time, with a day limit as small as
   the minute limit, so that the day limit binds across minute windows *)

SpecRLDay ==
  Init /\ [][
    \/ \E key \in RLKeys : SeqCheck(key, LimitM)
    \/ Tick
    ]_vars

\* history: the admissions of key in the minute windows of calendar day d
RECURSIVE SumAdmitted(_, _)
SumAdmitted(adm, S) ==
  IF S = {} THEN 0
  ELSE LET x == CHOOSE y \in S : TRUE IN adm[x] + SumAdmitted(adm, S \ {x})

AdmittedOnDay(adm, key, d) ==
  SumAdmitted(adm, {x \in DOMAIN adm : x[1] = key /\ x[2] \div MinutesPerDay = d})

\* C21: across any number of minute rollovers at most dayLimit calls of a
\* key are admitted within one calendar date, and the first call of a new
\* date is admitted.
C21_WindowsIndependent ==
  /\ \A key \in RLKeys : \A x \in DOMAIN admitted :
       AdmittedOnDay(admitted, key, x[2] \div MinutesPerDay) <= LimitM
  /\ (/\ last.op = "check"
      /\ AdmittedOnDay(admitted, last.key, DayWindow(last.t))
           = (IF last.res.allowed THEN 1 ELSE 0))
       => last.res.allowed

----------------------------------------------------------------------------
(* The audit rows of the reconciler, under Spec *)

\* C22: a delivery that processes a payment event (a principal is named and
\* the event is not rejected) or a subscription event (a principal resolves)
\* appends exactly one row to payments.json, whether or not it grants a key;
\* any other delivery appends none.
C22_OneRowPerEvent ==
  [][last'.op = "webhook" =>
       IF \/ /\ last'.event.type = "payment_intent.succeeded"
             /\ last'.event.userId # 0 /\ last'.status = 200
          \/ /\ last'.event.type = "checkout.session.completed"
             /\ last'.principal # 0
       THEN /\ Len(paymentsFile') = Len(paymentsFile) + 1
            /\ SubSeq(paymentsFile', 1, Len(paymentsFile)) = paymentsFile
            /\ paymentsFile'[Len(paymentsFile')].userId = last'.principal
       ELSE paymentsFile' = paymentsFile]_vars

\* a subscription event for a principal who holds a paid key granted by an
\* earlier payment event: no key is added, a second row is
C22_Witness ==
  /\ last.op = "webhook" /\ last.event.type = "checkout.session.completed"
  /\ last.hadPaid /\ ~last.granted
  /\ Len(paymentsFile) = 2
  /\ paymentsFile[1].stripePaymentIntent = "pi_1"
  /\ paymentsFile[2].stripePaymentIntent = "sub_1"

----------------------------------------------------------------------------
(* The reconciler when the write of payments.json fails (writeJson throws
   inside recordPayment): deliveries one at a time *)

\* webhook/route.ts lines 149-229 with a throwing recordPayment: in the
\* payment branch the call of line 176 is outside every try, the exception
\* leaves the handler and the framework answers 500; in the subscription
\* branch the calls of lines 219 and 222 are inside the try of lines 198-225,
\* after the key was added
WebhookFailingWrite(e, answer) ==
  /\ Len(paymentsFile) < MaxPayments
  /\ LET ok == IF e.type = "payment_intent.succeeded"
               THEN PaymentOutcome(usersFile, paymentsFile, e, answer, nextSecret)
               ELSE SubscriptionOutcome(usersFile, paymentsFile, e, answer, nextSecret)
         o == IF ok.pays = paymentsFile THEN ok
              ELSE IF e.type = "payment_intent.succeeded"
                   THEN Outcome(500, usersFile, paymentsFile, FALSE, e.userId)
                   ELSE Outcome(200, ok.users, paymentsFile, ok.granted, ok.principal)
     IN /\ o.granted => nextSecret <= MaxSecret
        /\ usersFile' = o.users
        /\ paymentsFile' = o.pays
        /\ nextSecret' = IF o.granted THEN nextSecret + 1 ELSE nextSecret
        /\ last' = WebhookRecord(e, answer, o,
                                 o.principal # 0 /\ SomePaid(listKeysForUser(usersFile, o.principal)))
  /\ UNCHANGED <<usageFile, redis, redisOn, now, ticks, calls, admitted, pc, loc>>

SpecAudit ==
  InitKeyStore /\ [][
    \/ WebhookPayment
    \/ WebhookSubscription
    \/ \E e \in PaymentEvents : \E answer \in PaymentAnswers(e) : WebhookFailingWrite(e, answer)
    \/ \E e \in SubscriptionEvents : \E answer \in SubscriptionAnswers :
         WebhookFailingWrite(e, answer)
    ]_vars

\* C23: a delivery of an event to a principal who already holds the paid key
\* is never answered with a 5xx status.
C23_DuplicateNever5xx ==
  (last.op = "webhook" /\ last.principal # 0 /\ last.hadPaid) => last.status < 500

----------------------------------------------------------------------------
(* GET /api/stripe/session-result by concurrent requests of signed-in
   users, with the payment webhook that grants the paid key.  A handler
   yields at the await of listKeysForUser (line 32) and at the await of
   markKeyRevealed (line 50).  No time passes here, so every paid key is
   within the ten minutes of line 35 *)

\* lines 34-35: the paid key the request is about, as an index into keys
\* (0 when there is none)
RevealCandidate(keys) ==
  IF SomePaid(keys)
  THEN CHOOSE n \in 1..Len(keys) :
         keys[n].tier = "paid" /\ \A m \in 1..(n - 1) : keys[m].tier # "paid"
  ELSE 0

\* db.ts lines 168-181: metadata.revealed = true on the first key of the
\* user with that id, then writeJson
markKeyRevealed(file, userId, keyId) ==
  LET ui == FindUserIdx(file, userId)
      ki == IF ui = 0 THEN 0 ELSE FirstKeyWithId(file[ui].keys, keyId)
  IN IF ui = 0 \/ ki = 0 THEN file
     ELSE [file EXCEPT ![ui].keys[ki].revealed = TRUE]

\* lines 19-45: the key list is read and the candidate examined
RevealStart(p, u) ==
  /\ pc[p] = "idle"
  /\ calls < MaxCalls
  /\ calls' = calls + 1
  /\ LET keys == listKeysForUser(usersFile, u)
         n == RevealCandidate(keys)
     IN IF n = 0 \/ keys[n].revealed
        THEN /\ last' = [op |-> "reveal", userId |-> u, id |-> 0, key |-> 0,
                         status |-> IF n = 0 THEN 404 ELSE 400]
             /\ UNCHANGED <<pc, loc>>
        ELSE /\ pc' = [pc EXCEPT ![p] = "markRevealed"]
             /\ loc' = [loc EXCEPT ![p] = [op |-> "reveal", userId |-> u,
                                           id |-> keys[n].id, key |-> keys[n].key]]
             /\ UNCHANGED last
  /\ UNCHANGED <<usersFile, paymentsFile, usageFile, redis, redisOn, now, ticks,
                 nextSecret, admitted>>

\* lines 48-54: markKeyRevealed, whose failure is caught and ignored, then
\* the response that carries the secret
RevealFinish(p, writeOk) ==
  /\ pc[p] = "markRevealed"
  /\ usersFile' = IF writeOk THEN markKeyRevealed(usersFile, loc[p].userId, loc[p].id)
                  ELSE usersFile
  /\ last' = [op |-> "reveal", userId |-> loc[p].userId, id |-> loc[p].id,
              key |-> loc[p].key, status |-> 200]
  /\ pc' = [pc EXCEPT ![p] = "idle"]
  /\ loc' = [loc EXCEPT ![p] = Idle]
  /\ UNCHANGED <<paymentsFile, usageFile, redis, redisOn, now, ticks, nextSecret,
                 calls, admitted>>

SpecReveal ==
  InitKeyStore /\ [][
    \/ WebhookPayment
    \/ \E p \in Procs, u \in Users : RevealStart(p, u)
    \/ \E p \in Procs, writeOk \in BOOLEAN : RevealFinish(p, writeOk)
    ]_vars

\* C24: a response that carries the secret of a paid key is given only while
\* the key is not marked revealed, and leaves the key marked revealed.
C24_RevealedOnce ==
  [][\A p \in Procs :
       (pc[p] = "markRevealed" /\ pc'[p] = "idle")
         => /\ ~usersFile[findUserByApiKey(usersFile, loc[p].key).u]
                  .keys[findUserByApiKey(usersFile, loc[p].key).k].revealed
            /\ usersFile'[findUserByApiKey(usersFile', loc[p].key).u]
                  .keys[findUserByApiKey(usersFile', loc[p].key).k].revealed]_vars

----------------------------------------------------------------------------
(* Signup: app/api/keys/route.ts POST (email, password), with the awaits of
   the handler as the points where another request may run *)

\* lib/db.ts createUser: users.push({id, email, password, keys: []})
createUser(file, id, email) == Append(file, UserRec(id, email, << >>))

\* lines 60-61: findUserByEmail, then 400 'Email exists' or on to hashPassword
SignupCheck(p, email) ==
  /\ pc[p] = "idle"
  /\ calls < MaxCalls
  /\ calls' = calls + 1
  /\ IF findUserByEmail(usersFile, email) # 0
     THEN /\ last' = [op |-> "signup", email |-> email, userId |-> 0, status |-> 400]
          /\ UNCHANGED <<pc, loc>>
     ELSE /\ pc' = [pc EXCEPT ![p] = "createUser"]
          /\ loc' = [loc EXCEPT ![p] = [op |-> "signup", email |-> email, userId |-> 0]]
          /\ UNCHANGED last
  /\ UNCHANGED <<usersFile, paymentsFile, usageFile, redis, redisOn, now, ticks,
                 nextSecret, admitted>>

\* lines 63-64: hashPassword resolved, createUser appends the entry under a
\* fresh id; a failed write rejects the handler's promise (500)
SignupCreate(p, writeOk) ==
  /\ pc[p] = "createUser"
  /\ nextSecret' = nextSecret + 1
  /\ IF writeOk
     THEN /\ usersFile' = createUser(usersFile, nextSecret, loc[p].email)
          /\ pc' = [pc EXCEPT ![p] = "addKey"]
          /\ loc' = [loc EXCEPT ![p].userId = nextSecret]
          /\ UNCHANGED last
     ELSE /\ last' = [op |-> "signup", email |-> loc[p].email, userId |-> 0,
                      status |-> 500]
          /\ pc' = [pc EXCEPT ![p] = "idle"]
          /\ loc' = [loc EXCEPT ![p] = Idle]
          /\ UNCHANGED usersFile
  /\ UNCHANGED <<paymentsFile, usageFile, redis, redisOn, now, ticks, calls,
                 admitted>>

\* lines 66-76: the initial free key under a fresh secret, then 200 with the
\* session cookie; a failed write leaves the new entry without a key (500)
SignupAddKey(p, writeOk) ==
  /\ pc[p] = "addKey"
  /\ usersFile' = IF writeOk
                  THEN addApiKeyForUser(usersFile, loc[p].userId,
                                        SignupFreeKey(nextSecret)).file
                  ELSE usersFile
  /\ nextSecret' = nextSecret + 1
  /\ last' = [op |-> "signup", email |-> loc[p].email, userId |-> loc[p].userId,
              status |-> IF writeOk THEN 200 ELSE 500]
  /\ pc' = [pc EXCEPT ![p] = "idle"]
  /\ loc' = [loc EXCEPT ![p] = Idle]
  /\ UNCHANGED <<paymentsFile, usageFile, redis, redisOn, now, ticks, calls,
                 admitted>>

SpecSignup ==
  InitKeyStore /\ [][
    \/ \E p \in Procs, email \in 1..(NUsers + 1) : SignupCheck(p, email)
    \/ \E p \in Procs, writeOk \in BOOLEAN : SignupCreate(p, writeOk)
    \/ \E p \in Procs, writeOk \in BOOLEAN : SignupAddKey(p, writeOk)
    ]_vars

\* C25: no two principals share an email address, whatever the interleaving
\* of signups; a signup for a registered address creates nothing.
C25_EmailUnique ==
  \A i, j \in 1..Len(usersFile) :
    i # j => usersFile[i].email # usersFile[j].email

\* C26: once signed up, each principal holds exactly one free-tier key in
\* every reachable state; no later operation adds a second or removes the
\* first.
C26_ExactlyOneFreeKey ==
  \A u \in Users : FreeCount(usersFile, u) = 1

----------------------------------------------------------------------------
(* Two keys under concurrent admission checks: a principal creates a second
   key, and checkAndIncrementKey runs for any stored key with its awaits as
   the points where another request may run *)

SpecRLPair ==
  Init /\ [][
    \/ \E u \in Users : CreateKey(u, "paid")
    \/ \E p \in Procs,
            key \in {k \in 1..MaxSecret : findUserByApiKey(usersFile, k).u # 0} :
         RLStart(p, key)
    \/ \E p \in Procs : RLIncrMinute(p)
    \/ \E p \in Procs : RLIncrDay(p)
    \/ \E p \in Procs : RLRead(p)
    \/ \E p \in Procs : RLWrite(p)
    ]_vars

\* C27: the quota state of distinct keys is independent: a check that
\* completes for key A leaves the stored minute count and day count of every
\* other key B as they were.
C27_KeysIndependent ==
  [][\A p \in Procs :
       (pc[p] \in {"writeUsage", "incrDay"} /\ pc'[p] = "idle")
         => \A B \in (1..MaxSecret) \ {loc[p].key} :
              /\ StoredMinuteCount(redis', usageFile', redisOn, B, now)
                   = StoredMinuteCount(redis, usageFile, redisOn, B, now)
              /\ StoredDayCount(redis', usageFile', redisOn, B, now)
                   = StoredDayCount(redis, usageFile, redisOn, B, now)]_vars

\* C28: when the usage record cannot be written after the request was
\* admitted and the Predictor returned a forecast, the request is still
\* answered 200.
C28_RecordFailureStill200 ==
  [][\A p \in Procs :
       (pc[p] = "recordWrite" /\ pc'[p] = "idle" /\ ~last'.recorded)
         => /\ last'.status = 200
            /\ last'.key = loc[p].key
            /\ last'.admitted]_vars

C28_Witness ==
  /\ last.op = "predict"
  /\ last.status = 200
  /\ ~last.recorded
  /\ last.key = FreeSecret

----------------------------------------------------------------------------
(* The handlers that call the billing system, with each call as an await:
   the webhook's stripe.prices.retrieve and stripe.subscriptions.retrieve
   (webhook/route.ts lines 162 and 199) and the deletion guard's lookups
   (DELETE lines 83-147).  The client is built with an apiVersion only and
   no call is raced against a timer: a handler goes on when, and only when,
   the promise of its call settles. *)

\* the handler runs up to its billing call and awaits it
StripeCall(p, req) ==
  /\ pc[p] = "idle"
  /\ calls < MaxCalls
  /\ calls' = calls + 1
  /\ pc' = [pc EXCEPT ![p] = "awaitStripe"]
  /\ loc' = [loc EXCEPT ![p] = req]
  /\ UNCHANGED <<usersFile, paymentsFile, usageFile, redis, redisOn, now, ticks,
                 nextSecret, admitted, last>>

\* the billing system answers or the call fails: the promise settles
StripeAnswers(p, answer) ==
  /\ pc[p] = "awaitStripe"
  /\ pc' = [pc EXCEPT ![p] = "settled"]
  /\ loc' = [loc EXCEPT ![p] = [op |-> loc[p].op, req |-> loc[p].req, answer |-> answer]]
  /\ UNCHANGED <<usersFile, paymentsFile, usageFile, redis, redisOn, now, ticks,
                 nextSecret, calls, admitted, last>>

\* the rest of the handler on the settled call, up to its response
HandlerResumes(p) ==
  /\ pc[p] = "settled"
  /\ IF loc[p].op = "webhook"
     THEN LET e == loc[p].req
              o == IF e.type = "payment_intent.succeeded"
                   THEN PaymentOutcome(usersFile, paymentsFile, e, loc[p].answer, nextSecret)
                   ELSE SubscriptionOutcome(usersFile, paymentsFile, e, loc[p].answer,
                                            nextSecret)
          IN /\ usersFile' = o.users
             /\ paymentsFile' = o.pays
             /\ nextSecret' = IF o.granted THEN nextSecret + 1 ELSE nextSecret
             /\ last' = WebhookRecord(e, loc[p].answer, o,
                          o.principal # 0 /\
                            SomePaid(listKeysForUser(usersFile, o.principal)))
     ELSE LET o == DeleteOutcome(usersFile, loc[p].req.userId, loc[p].req.id,
                                 loc[p].answer)
          IN /\ usersFile' = o.users
             /\ last' = [op |-> "delete", userId |-> loc[p].req.userId,
                         id |-> loc[p].req.id, status |-> o.status]
             /\ UNCHANGED <<paymentsFile, nextSecret>>
  /\ pc' = [pc EXCEPT ![p] = "idle"]
  /\ loc' = [loc EXCEPT ![p] = Idle]
  /\ UNCHANGED <<usageFile, redis, redisOn, now, ticks, calls, admitted>>

\* the event loop runs the continuation of a settled promise; nothing
\* obliges the billing system to answer
SpecBilling ==
  /\ InitKeyStore
  /\ [][
       \/ \E p \in Procs :
            \E e \in {x \in PaymentEvents : PaymentAnswers(x) # {"none"}}
                      \cup {x \in SubscriptionEvents : x.subscriptionId # ""} :
              StripeCall(p, [op |-> "webhook", req |-> e])
       \/ \E p \in Procs, u \in Users :
            \E id \in {i \in KeyIds(usersFile, u) :
                          DeletedKey(usersFile, u, i).tier # "free"} :
              StripeCall(p, [op |-> "delete", req |-> [userId |-> u, id |-> id]])
       \/ \E p \in Procs :
            \E answer \in
                 (IF loc[p].op = "delete"
                  THEN BillingAnswersFor(DeletedKey(usersFile, loc[p].req.userId,
                                                    loc[p].req.id))
                  ELSE IF loc[p].op = "webhook"
                  THEN (IF loc[p].req.type = "payment_intent.succeeded"
                        THEN PaymentAnswers(loc[p].req) ELSE SubscriptionAnswers)
                  ELSE {}) :
              StripeAnswers(p, answer)
       \/ \E p \in Procs : HandlerResumes(p)
       ]_vars
  /\ \A p \in Procs : WF_vars(HandlerResumes(p))

----------------------------------------------------------------------------
(* The Predictor's failures as the handler sees them: the message of the
   error predictTicker rejects with (lib/ml-predict.ts) and the status the
   catch block of predict/route.ts lines 102-114 gives it *)

\* String.prototype.toLowerCase on the letters A-Z
RECURSIVE toLowerCase(_)
toLowerCase(s) ==
  IF s = "" THEN ""
  ELSE LET c == SubSeq(s, 1, 1)
           upper == "ABCDEFGHIJKLMNOPQRSTUVWXYZ"
           lower == "abcdefghijklmnopqrstuvwxyz"
       IN (IF \E i \in 1..26 : SubSeq(upper, i, i) = c
           THEN LET i == CHOOSE j \in 1..26 : SubSeq(upper, j, j) = c
                IN SubSeq(lower, i, i)
           ELSE c) \o toLowerCase(SubSeq(s, 2, Len(s)))

\* what predictTicker settles with: a forecast, the timeout of
\* spawnPythonPredict (line 19), the errors the script reports for a symbol
\* it cannot resolve or a model it cannot load (lines 29-31 pass its message
\* on), and the failures that are none of these (lines 31, 35 and 66)
PredictorResults ==
  {[kind |-> "forecast", message |-> ""],
   [kind |-> "timeout", message |-> "Python predict timed out"],
   [kind |-> "invalid symbol", message |-> "Invalid ticker: ZZZZ"],
   [kind |-> "invalid symbol", message |-> "No overview data returned for ZZZZ"],
   [kind |-> "invalid symbol", message |-> "Ticker ZZZZ not found"],
   [kind |-> "model unavailable", message |-> "Model not trained"],
   [kind |-> "model unavailable", message |-> "Model not found at ml/models/stock_predictor.pkl"],
   [kind |-> "other", message |-> "Python predict failed with code 1: "],
   [kind |-> "other", message |-> "No ML service configured and local Python not enabled"]}

\* lines 104-113 with every test falling through to 500
PredictionErrorAlways500(msg) ==
  500

\* lines 104-113: the tests on msg.toLowerCase(), in the order of the code
PredictionErrorStatus(msg) ==
  LET m == toLowerCase(msg) IN
  IF Includes(m, "no overview") \/ Includes(m, "invalid ticker") \/ Includes(m, "not found")
  THEN 400
  ELSE IF Includes(m, "timed out") THEN 504
  ELSE IF Includes(m, "model not trained") \/ Includes(m, "model not found") THEN 400
  ELSE 500

\* POST /api/predict run to completion on a request that names a ticker
PredictSettles(secret, result) ==
  /\ calls < MaxCalls
  /\ LET g == Gate(usersFile, redis, usageFile, redisOn, secret, now)
         status == IF g.status # 0 THEN g.status
                   ELSE IF result.kind = "forecast" THEN 200
                   ELSE PredictionErrorStatus(result.message)
     IN /\ redis' = g.redis
        /\ usageFile' = IF status = 200 THEN RecordUsage(ReadUsage(g.file), secret)
                        ELSE g.file
        /\ calls' = calls + 1
        /\ last' = [op |-> "predict", key |-> secret, kind |-> result.kind,
                    message |-> result.message, status |-> status,
                    admitted |-> (g.status = 0)]
  /\ UNCHANGED <<usersFile, paymentsFile, redisOn, now, ticks, nextSecret, admitted,
                 pc, loc>>

SpecPredictor ==
  Init /\ [][\E secret \in {0, FreeSecret}, result \in PredictorResults :
               PredictSettles(secret, result)]_vars

----------------------------------------------------------------------------
(* Whom a subscription event names: two principals have signed up, and
   checkout.session.completed events carry any mix of a metadata.userId
   (absent, of a principal, of nobody) and a customer email (absent, of a
   principal, of nobody) *)

\* the state after two signups (api/keys/route.ts lines 53-77, twice); ids
\* and secrets are UUIDs, and the second principal's stand outside the
\* secrets handed out later
InitPair ==
  /\ usersFile = << UserRec(1, 1, << SignupFreeKey(1) >>),
                    UserRec(MaxSecret + 2, MaxSecret + 2,
                            << SignupFreeKey(MaxSecret + 2) >>) >>
  /\ paymentsFile = << >>
  /\ usageFile = [kind |-> "object", entries |-> EmptyFcn]
  /\ redis = EmptyFcn
  /\ redisOn = FALSE
  /\ now = 0
  /\ ticks = 0
  /\ nextSecret = 2
  /\ calls = 0
  /\ admitted = EmptyFcn
  /\ last = Idle
  /\ pc = [p \in Procs |-> "idle"]
  /\ loc = [p \in Procs |-> Idle]

SpecResolve ==
  InitPair /\ [][
    \E e \in {Event("checkout.session.completed", userId, "", amount, "", "sub_1",
                     customerEmail) :
                 userId \in {0, 1, MaxSecret + 2, NoSuchId},
                 customerEmail \in {0, 1, MaxSecret + 2, NoSuchId},
                 amount \in {1000, 5000}},
       answer \in SubscriptionAnswers :
      Webhook(e, answer)
    ]_vars

\* C31: the principal of a subscription event is the one metadata.userId
\* names when it names one, else the one whose email is the customer email;
\* when neither names a principal, no key is granted and no payment row is
\* written.
C31_PrincipalResolution ==
  [][(last'.op = "webhook" /\ (last' # last \/ paymentsFile' # paymentsFile)
        /\ last'.event.type = "checkout.session.completed"
        /\ last'.event.subscriptionId # "" /\ last'.answer # "fail")
       => LET e == last'.event
              byId == IF e.userId # 0 THEN findUserById(usersFile, e.userId) ELSE 0
              byEmail == IF e.customerEmail # 0
                         THEN findUserByEmail(usersFile, e.customerEmail) ELSE 0
              expected == IF byId # 0 THEN usersFile[byId].id
                          ELSE IF byEmail # 0 THEN usersFile[byEmail].id ELSE 0
          IN /\ last'.principal = expected
             /\ expected = 0 => /\ usersFile' = usersFile
                                /\ paymentsFile' = paymentsFile
                                /\ ~last'.granted
             /\ expected # 0 =>
                  /\ Len(paymentsFile') = Len(paymentsFile) + 1
                  /\ paymentsFile'[Len(paymentsFile')].userId = expected
                  /\ \A i \in 1..Len(usersFile) :
                       usersFile[i].id # expected => usersFile'[i] = usersFile[i]]_vars

C31_Witness ==
  /\ last.op = "webhook"
  /\ last.event.type = "checkout.session.completed"
  /\ last.event.userId = 1
  /\ last.event.customerEmail = MaxSecret + 2
  /\ last.granted
  /\ last.principal = 1
  /\ PaidCount(usersFile, 1) = 1
  /\ PaidCount(usersFile, MaxSecret + 2) = 0

\* C32: a DELETE of a paid key that passes the guard removes the key: its
\* secret is then answered 401 by the gate, the principal's other keys are
\* as they were, and so is every other principal.
C32_RemovedKeyUnauthorized ==
  [][(last'.op = "delete" /\ (last' # last \/ usersFile' # usersFile)
        /\ last'.status = 200 /\ last'.key # NoKey)
       => LET u == last'.userId
              keys == listKeysForUser(usersFile, u)
              n == CHOOSE m \in 1..Len(keys) : keys[m] = last'.key
          IN /\ Gate(usersFile', redis', usageFile', redisOn, last'.key.key, now).status = 401
             /\ listKeysForUser(usersFile', u)
                  = SubSeq(keys, 1, n - 1) \o SubSeq(keys, n + 1, Len(keys))
             /\ \A i \in 1..Len(usersFile) :
                  usersFile[i].id # u => usersFile'[i] = usersFile[i]]_vars

C32_Witness ==
  /\ last.op = "delete"
  /\ last.status = 200
  /\ last.key # NoKey
  /\ last.key.tier = "paid"
  /\ last.key.key # last.key.id
  /\ last.id = last.key.key
  /\ findUserByApiKey(usersFile, last.key.key).u = 0

\* C33: rotating a key does not reset its quota consumption: the minute and
\* day counts that requests bearing the new secret are checked against are
\* the counts reached under the old secret.
C33_RotateKeepsQuota ==
  [][(last'.op = "rotate" /\ nextSecret' = nextSecret + 1
        /\ findUserByApiKey(usersFile', last'.newKey).u # 0)
       => /\ StoredMinuteCount(redis', usageFile', redisOn, last'.newKey, now)
               = StoredMinuteCount(redis, usageFile, redisOn, last'.oldKey, now)
          /\ StoredDayCount(redis', usageFile', redisOn, last'.newKey, now)
               = StoredDayCount(redis, usageFile, redisOn, last'.oldKey, now)]_vars

----------------------------------------------------------------------------
(* Two writers of users.json: a payment delivery (steps as in SpecHook, on
   process 1) and POST /api/keys on the other processes, split at the read
   and the write of addApiKeyForUser *)

\* part_013 lines 28-51 and addApiKeyForUser's readJson: the tier check,
\* the new key, the users array as read
CreateRead(p, u, tier) ==
  /\ pc[p] = "idle"
  /\ ~CreateRefused(usersFile, u, tier)
  /\ nextSecret <= MaxSecret
  /\ nextSecret' = nextSecret + 1
  /\ pc' = [pc EXCEPT ![p] = "createWrite"]
  /\ loc' = [loc EXCEPT ![p] = [op |-> "create", userId |-> u, tier |-> tier,
                                newKey |-> CreatedKey(tier, nextSecret),
                                users |-> usersFile]]
  /\ UNCHANGED <<usersFile, paymentsFile, usageFile, redis, redisOn, now, ticks,
                 calls, admitted, last>>

\* addApiKeyForUser's push and writeJson, then the 200 of lines 54-55
CreateWrite(p) ==
  /\ pc[p] = "createWrite"
  /\ usersFile' = addApiKeyForUser(loc[p].users, loc[p].userId, loc[p].newKey).file
  /\ last' = [op |-> "create", userId |-> loc[p].userId, tier |-> loc[p].tier,
              status |-> 200]
  /\ pc' = [pc EXCEPT ![p] = "idle"]
  /\ loc' = [loc EXCEPT ![p] = Idle]
  /\ UNCHANGED <<paymentsFile, usageFile, redis, redisOn, now, ticks, nextSecret,
                 calls, admitted>>

SpecStore ==
  InitKeyStore /\ [][
    \/ \E e \in PaymentEvents : \E answer \in PaymentAnswers(e) :
         (\A q \in Procs \ {1} : pc[q] = "idle") /\ HookStart(1, e, answer)
    \/ HookRecordRead(1)
    \/ HookRecordWrite(1)
    \/ HookFindUser(1)
    \/ HookListKeys(1)
    \/ HookAddRead(1)
    \/ HookAddWrite(1)
    \/ \E p \in Procs \ {1}, u \in Users, tier \in Tiers \ {"paid"} : CreateRead(p, u, tier)
    \/ \E p \in Procs \ {1} : CreateWrite(p)
    ]_vars

\* C34: no successful key-store mutation is lost to a concurrent one: a key
\* that users.json holds is still there after any step of another handler.
C34_NoLostMutation ==
  [][\A k \in 1..(MaxSecret + 1) :
       findUserByApiKey(usersFile, k).u # 0 => findUserByApiKey(usersFile', k).u # 0]_vars

----------------------------------------------------------------------------
(* Two principals, each acting on key identifiers of either *)

\* POST /api/keys/[id]/rename by the logged-in principal u
Rename(u, keyId, name) ==
  /\ calls < MaxCalls
  /\ calls' = calls + 1
  /\ usersFile' = updateApiKeyName(usersFile, u, keyId, name).file
  /\ last' = [op |-> "rename", userId |-> u, keyId |-> keyId, status |-> 200]
  /\ UNCHANGED <<paymentsFile, usageFile, redis, redisOn, now, ticks, nextSecret,
                 admitted, pc, loc>>

SpecScope ==
  InitPair /\ [][
    \/ \E u \in {1, MaxSecret + 2}, tier \in Tiers : CreateKey(u, tier)
    \/ \E u \in {1, MaxSecret + 2} :
         \E keyId \in KeyIds(usersFile, 1) \cup KeyIds(usersFile, MaxSecret + 2) :
           Rotate(u, keyId)
    \/ \E u \in {1, MaxSecret + 2} :
         \E keyId \in KeyIds(usersFile, 1) \cup KeyIds(usersFile, MaxSecret + 2) :
           Rename(u, keyId, "renamed")
    \/ \E u \in {1, MaxSecret + 2} :
         \E id \in KeyIds(usersFile, 1) \cup KeyIds(usersFile, MaxSecret + 2)
                    \cup KeySecrets(usersFile, 1)
                    \cup KeySecrets(usersFile, MaxSecret + 2) :
           Delete(u, id)
    ]_vars

\* C35: a DELETE, rename or rotate issued by one principal, with any key
\* identifier, leaves the keys of every other principal as they were.
C35_MutationsScoped ==
  [][(last'.op \in {"delete", "rename", "rotate"}
        /\ (last' # last \/ usersFile' # usersFile))
       => /\ Len(usersFile') = Len(usersFile)
          /\ \A i \in 1..Len(usersFile) :
               usersFile[i].id # last'.userId => usersFile'[i] = usersFile[i]]_vars

C35_Witness ==
  /\ last.op = "rename"
  /\ last.userId = 1
  /\ last.keyId \in KeyIds(usersFile, MaxSecret + 2)
  /\ last.keyId \notin KeyIds(usersFile, 1)

----------------------------------------------------------------------------
(* The two paths of checkAndIncrementKey side by side: two deployments, one
   with Redis and one on a usage.json that holds an object, are sent the
   same calls at the same clock readings, one call at a time.  redis holds
   the counters of the first, usageFile the file of the second. *)

CheckBothPaths(key, minuteLimit, dayLimit) ==
  /\ calls < MaxCalls
  /\ calls' = calls + 1
  /\ LET onRedis == checkAndIncrementKey(redis, usageFile, TRUE, key, minuteLimit,
                                         dayLimit, now)
         onFile == checkAndIncrementKey(redis, usageFile, FALSE, key, minuteLimit,
                                        dayLimit, now)
     IN /\ redis' = onRedis.redis
        /\ usageFile' = onFile.file
        /\ last' = [op |-> "both", key |-> key, t |-> now, redis |-> onRedis.res,
                    file |-> onFile.res]
  /\ UNCHANGED <<usersFile, paymentsFile, redisOn, now, ticks, nextSecret, admitted,
                 pc, loc>>

SpecPaths ==
  InitKeyStore /\ [][
    \/ \E key \in RLKeys, dayLimit \in {LimitD, FarDayLimit} :
         CheckBothPaths(key, LimitM, dayLimit)
    \/ Tick
    ]_vars

\* C36: for calls issued one at a time with the same clock readings and
\* limits, the Redis path and the file fallback return the same allowed
\* flag, minuteRemaining and dayRemaining at every call.
C36_PathsAgree ==
  last.op = "both" => last.redis = last.file

----------------------------------------------------------------------------
(* The webhook under every kind of signature-verified event: the two types
   the handler names, and types it names nowhere.  An event of another type
   carries the same metadata.userId, subscription and customer email a
   checkout session would. *)

SpecIgnore ==
  Init /\ [][
    \/ WebhookPayment
    \/ WebhookSubscription
    \/ \E e \in {Event(type, u, "FIFTYCALLS_PRICE_ID", 5000, "evt_1", "sub_1", u) :
                   type \in {"invoice.paid", "customer.subscription.deleted"},
                   u \in 0..NUsers} :
         Webhook(e, "none")
    ]_vars

\* C37: a signature-verified event that is neither payment_intent.succeeded
\* nor checkout.session.completed, or a payment_intent.succeeded event without
\* userId, is answered 200 and leaves users.json and payments.json as they were.
C37_IgnoredEventsChangeNothing ==
  [][(/\ last'.op = "webhook"
      /\ \/ last'.event.type \notin {"payment_intent.succeeded",
                                      "checkout.session.completed"}
         \/ last'.event.type = "payment_intent.succeeded" /\ last'.event.userId = 0)
     => /\ last'.status = 200
        /\ usersFile' = usersFile
        /\ paymentsFile' = paymentsFile]_vars

\* a payment event without userId arrives after a payment was recorded and
\* a paid key granted
C37_Witness ==
  /\ last.op = "webhook"
  /\ last.event.type = "payment_intent.succeeded"
  /\ last.event.userId = 0
  /\ last.status = 200
  /\ Len(paymentsFile) > 0
  /\ \E u \in Users : PaidCount(usersFile, u) > 0

====
